---- MODULE Spec2Model ----
(***************************************************************************)
(* Matching engine of the trading platform (app/services/matching.py) and  *)
(* the two HTTP handlers that drive it (app/api/v1/orders.py).             *)
(*                                                                         *)
(* The store is a relational database accessed through one SQLAlchemy      *)
(* session per request: `orders`/`trades` are the committed rows, `sess`   *)
(* is each request's identity map with its uncommitted changes.  Order and *)
(* trade ids are autoincrement keys handed out at flush time and never     *)
(* reused.  Prices are floats in the code; the model draws them from a     *)
(* small integer grid, on which float(), negation and comparison are exact.*)
(***************************************************************************)
EXTENDS Integers, Sequences, FiniteSets, TLC

\* ---------------------------------------------------------------- bounds
MaxOrders == 3
MaxPrice == 2
MaxQty == 2
MaxConcOrders == 3
MaxAdds == 2
MaxNonces == 2
MaxNotifications == 3
MaxCancelId == 1

Symbols == {"AAPL", "MSFT"}
RequestSymbols == {"AAPL", "aapl", "MSFT"}
OneSymbol == {"AAPL", "aapl"}
Sides == {"BUY", "SELL"}
OrderTypes == {"LIMIT", "MARKET"}
Threads == {1, 2}
NoThread == 0
NoOrder == 0
NoHeader == 0 - 1
NoPrice == 0 - (MaxPrice + 2)
TxRef == "0xTX"

VARIABLES
    orders,     \* committed rows of table orders: id -> row
    trades,     \* committed rows of table trades: id -> row
    order_ids,  \* autoincrement counter of orders.id (last id handed out)
    trade_ids,  \* autoincrement counter of trades.id
    rowlock,    \* row-level write locks of uncommitted UPDATEs: order id -> thread
    books,      \* MatchingEngine.books: symbol -> OrderBook
    sess,       \* per request thread: the SQLAlchemy session
    pc,         \* per request thread: position in its handler
    req,        \* per request thread: locals of the handler
    ledger,     \* record_trade calls made so far: trade id -> outcome
    blockchain_available, \* BLOCKCHAIN_AVAILABLE and blockchain_adapter
    cancel_true, \* order ids for which MatchingEngine.cancel has returned True
    nonces,     \* redis: the keys that exist (siwe_nonce_store.r)
    nonce_true, \* per nonce handed out: consume_nonce calls that returned True
    users,      \* rows of table users made by siwe_login: wallet addresses
    tokens,     \* access tokens issued by siwe_login: the login requests served
    notifications, \* rows of table notifications: id -> row
    add_call    \* the last call of OrderBook.add made on a book directly

\* the state of the SIWE login and of the notification service
services == <<nonces, nonce_true, users, tokens, notifications>>

vars == <<orders, trades, order_ids, trade_ids, rowlock, books, sess, pc, req,
          ledger, blockchain_available, add_call, cancel_true, services>>

\* ------------------------------------------------------------- helpers
Min2(a, b) == IF a <= b THEN a ELSE b

\* f with key k bound to v (Python dict assignment d[k] = v)
Put(f, k, v) == [x \in (DOMAIN f) \cup {k} |-> IF x = k THEN v ELSE f[x]]

EmptyMap == [x \in {} |-> 0]

\* Python tuple comparison of heap items (key, seq, order_id)
TupleLess(a, b) ==
    \/ a[1] < b[1]
    \/ a[1] = b[1] /\ a[2] < b[2]
    \/ a[1] = b[1] /\ a[2] = b[2] /\ a[3] < b[3]

\* heap[0] of a heapq list: its least item
HeapTop(heap) == CHOOSE x \in heap : \A y \in heap : x = y \/ TupleLess(x, y)

\* a pop that takes the greatest item instead of the least
HeapPopLast(heap) ==
    heap \ {CHOOSE x \in heap : \A y \in heap : x = y \/ TupleLess(y, x)}

\* heapq.heappop(heap): the heap without its least item
HeapPop(heap) == heap \ {HeapTop(heap)}

HeapPush(heap, item) == heap \cup {item}

\* ----------------------------------------------------------- OrderBook
NewOrderBook ==
    [bids |-> {}, asks |-> {}, entries |-> EmptyMap, seq_counter |-> 0,
     lock |-> NoThread]

BookEntry(order_id, side, price, remaining, seq) ==
    [order_id |-> order_id, side |-> side, price |-> price,
     remaining |-> remaining, seq |-> seq, cancelled |-> FALSE]

\* BidKey without the negation of the price
BidKeyAscending(e) == <<e.price, e.seq, e.order_id>>

\* line 80: the heap item of a bid
BidKey(e) == <<0 - e.price, e.seq, e.order_id>>

\* AskKey that prefers the later entry at equal price
AskKeyLifo(e) == <<e.price, 0 - e.seq, e.order_id>>

\* line 82: the heap item of an ask
AskKey(e) == <<e.price, e.seq, e.order_id>>

\* OrderBook.add lines 63-64: the one test that raises (ValueError); None is
\* modelled by NoPrice, a value off the price grid
AddRaises(row) == row.price = NoPrice

\* an add that takes the next sequence number without advancing the counter
BookAddKeepsCounter(book, id, row) ==
    LET remaining == row.quantity - row.filled_quantity
        seq == book.seq_counter + 1
        e == BookEntry(id, row.side, row.price, remaining, seq)
    IN IF remaining <= 0 THEN book
       ELSE [book EXCEPT
               !.entries = Put(book.entries, id, e),
               !.bids = IF row.side = "BUY" THEN HeapPush(@, BidKey(e)) ELSE @,
               !.asks = IF row.side = "BUY" THEN @ ELSE HeapPush(@, AskKey(e))]

\* an add without the early return of lines 67-68
BookAddAlways(book, id, row) ==
    LET remaining == row.quantity - row.filled_quantity
        seq == book.seq_counter + 1
        e == BookEntry(id, row.side, row.price, remaining, seq)
    IN [book EXCEPT
          !.seq_counter = seq,
          !.entries = Put(book.entries, id, e),
          !.bids = IF row.side = "BUY" THEN HeapPush(@, BidKey(e)) ELSE @,
          !.asks = IF row.side = "BUY" THEN @ ELSE HeapPush(@, AskKey(e))]

\* OrderBook.add for an order row with a price
BookAdd(book, id, row) ==
    LET remaining == row.quantity - row.filled_quantity
        seq == book.seq_counter + 1
        e == BookEntry(id, row.side, row.price, remaining, seq)
    IN IF remaining <= 0 THEN book
       ELSE [book EXCEPT
               !.seq_counter = seq,
               !.entries = Put(book.entries, id, e),
               !.bids = IF row.side = "BUY" THEN HeapPush(@, BidKey(e)) ELSE @,
               !.asks = IF row.side = "BUY" THEN @ ELSE HeapPush(@, AskKey(e))]

\* a cancel that also takes the order's items out of both queues
BookCancelEvicts(book, order_id) ==
    IF order_id \in DOMAIN book.entries
    THEN [book EXCEPT !.entries[order_id].cancelled = TRUE,
                      !.bids = {x \in @ : x[3] # order_id},
                      !.asks = {x \in @ : x[3] # order_id}]
    ELSE book

\* OrderBook.cancel: the book afterwards, and the value returned
BookCancel(book, order_id) ==
    IF order_id \in DOMAIN book.entries
    THEN [book EXCEPT !.entries[order_id].cancelled = TRUE]
    ELSE book

BookCancelResult(book, order_id) == order_id \in DOMAIN book.entries

\* Invalid without the test of the cancelled flag
InvalidIgnoresCancel(entries, oid) ==
    \/ oid \notin DOMAIN entries
    \/ entries[oid].remaining <= 0

\* the test of _top_valid_bid/_top_valid_ask on the item at the top
Invalid(entries, oid) ==
    \/ oid \notin DOMAIN entries
    \/ entries[oid].cancelled
    \/ entries[oid].remaining <= 0

\* the heap as _top_valid_bid/_top_valid_ask leaves it
RECURSIVE PruneTop(_, _)
PruneTop(heap, entries) ==
    IF heap = {} THEN heap
    ELSE IF Invalid(entries, HeapTop(heap)[3])
         THEN PruneTop(HeapPop(heap), entries)
         ELSE heap

\* the order id of the entry _top_valid_* returns, NoOrder for None
TopValid(heap, entries) ==
    LET h == PruneTop(heap, entries)
    IN IF h = {} THEN NoOrder ELSE HeapTop(h)[3]

\* ------------------------------------------------------------- session
EmptySession ==
    [loaded |-> EmptyMap, cur |-> EmptyMap, new |-> {}, trades |-> EmptyMap]

\* wait: the rows whose UPDATE the thread is waiting to get through
IdleReq == [id |-> NoOrder, symbol |-> "", wait |-> {}, user_id |-> 0]

\* db.get(Order, id) finds a row: in the identity map, or committed
Visible(t, id) == id \in DOMAIN sess[t].cur \/ id \in DOMAIN orders

\* the session after db.get(Order, id) of a visible row
Load(s, id) ==
    IF id \in DOMAIN s.cur THEN s
    ELSE [s EXCEPT !.loaded = Put(@, id, orders[id]),
                   !.cur = Put(@, id, orders[id])]

\* the UPDATE a flush emits for one row: only the attributes that changed
UpdateRow(committed, loaded, cur) ==
    [committed EXCEPT
        !.filled_quantity =
            IF cur.filled_quantity # loaded.filled_quantity
            THEN cur.filled_quantity ELSE @,
        !.status = IF cur.status # loaded.status THEN cur.status ELSE @]

\* table orders after the session's transaction commits
CommitOrders(s) ==
    [id \in (DOMAIN orders) \cup s.new |->
        IF id \in s.new THEN s.cur[id]
        ELSE IF id \in DOMAIN s.cur
             THEN UpdateRow(orders[id], s.loaded[id], s.cur[id])
             ELSE orders[id]]

\* table trades after the session's transaction commits
CommitTrades(s) ==
    [id \in (DOMAIN trades) \cup (DOMAIN s.trades) |->
        IF id \in DOMAIN s.trades THEN s.trades[id] ELSE trades[id]]

\* the row locks left when the transaction of thread t ends
Release(t) == [id \in {x \in DOMAIN rowlock : rowlock[x] # t} |-> rowlock[id]]

\* the row locks once thread t has updated the rows ids
Acquire(t, ids) ==
    [x \in (DOMAIN rowlock) \cup ids |-> IF x \in ids THEN t ELSE rowlock[x]]

\* an UPDATE of row id by thread t does not have to wait
LockFree(t, id) == IF id \in DOMAIN rowlock THEN rowlock[id] = t ELSE TRUE

\* --------------------------------------------------------- create_order
Upper(symbol) == IF symbol = "aapl" THEN "AAPL" ELSE symbol

\* orders.py lines 13-14: x_user_id or 1, for a header that is absent
\* (NoHeader), 0 or a user's id
dev_user_id(x_user_id) ==
    IF x_user_id = NoHeader \/ x_user_id = 0 THEN 1 ELSE x_user_id

\* the prices a request can carry: none, 0, or a price of the grid
RequestPrices == {NoPrice} \cup (0..MaxPrice)

\* create_order without the check of the type
CreateOrderAcceptsAnyType(type, price, quantity) ==
    /\ price # NoPrice
    /\ price > 0
    /\ quantity > 0

\* the three checks of create_order pass (lines 8-13)
CreateOrderAccepts(type, price, quantity) ==
    /\ type = "LIMIT"
    /\ ~(price = NoPrice \/ price <= 0)
    /\ ~(quantity <= 0)

\* Order(...) of create_order with the column defaults of models/order.py
NewOrderRow(user_id, symbol, side, type, price, quantity, created_at) ==
    [user_id |-> user_id, type |-> type,
     symbol |-> Upper(symbol), side |-> side, price |-> price,
     quantity |-> quantity, filled_quantity |-> 0, status |-> "NEW",
     created_at |-> created_at]

\* post_order up to create_order's flush; a ValueError rolls back (nothing
\* stored); created_at is what datetime.utcnow gives at the flush
PostOrder(t, x_user_id, symbol, side, type, price, quantity, created_at) ==
    /\ pc[t] = "idle"
    /\ IF CreateOrderAccepts(type, price, quantity)
       THEN LET id == order_ids + 1
                user_id == dev_user_id(x_user_id)
                row == NewOrderRow(user_id, symbol, side, type, price,
                                   quantity, created_at)
            IN /\ order_ids' = id
               /\ sess' = [sess EXCEPT ![t] =
                              [@ EXCEPT !.loaded = Put(@, id, row),
                                        !.cur = Put(@, id, row),
                                        !.new = @ \cup {id}]]
               /\ req' = [req EXCEPT ![t] =
                             [IdleReq EXCEPT !.id = id, !.user_id = user_id]]
               /\ pc' = [pc EXCEPT ![t] = "submit"]
               /\ UNCHANGED <<orders, trades, trade_ids, rowlock, books, ledger,
                              blockchain_available, add_call, services,
                   cancel_true>>
       ELSE UNCHANGED vars

\* BookSymbol with one book for every symbol
BookSymbolShared(row) == "AAPL"

\* submit_and_match line 203: the book an order goes to
BookSymbol(row) == row.symbol

\* MatchingEngine._book
GetBook(registry, symbol) ==
    IF symbol \in DOMAIN registry THEN registry
    ELSE Put(registry, symbol, NewOrderBook)

\* CanLock of a submit_and_match or cancel without "with book.lock"
CanLockAlways(book) == TRUE

\* with book.lock (lines 205, 213): the lock can be taken
CanLock(book) == book.lock = NoThread

\* submit_and_match: _book, acquire book.lock, book.add(order)
SubmitAdd(t) ==
    /\ pc[t] = "submit"
    /\ LET symbol == BookSymbol(sess[t].cur[req[t].id])
           registry == GetBook(books, symbol)
           book == registry[symbol]
       IN /\ CanLock(book)
          /\ books' = [registry EXCEPT ![symbol] =
                          [BookAdd(book, req[t].id, sess[t].cur[req[t].id])
                              EXCEPT !.lock = t]]
          /\ req' = [req EXCEPT ![t].symbol = symbol]
    /\ pc' = [pc EXCEPT ![t] = "match"]
    /\ UNCHANGED <<orders, trades, order_ids, trade_ids, rowlock, sess,
                   ledger, blockchain_available, add_call, services, cancel_true>>

\* GlobalLockFree of a submit_and_match that keeps the global lock until
\* match_all has returned
GlobalLockFreeLate(t) ==
    \A u \in Threads \ {t} : pc[u] \notin {"lookup", "lock", "match", "flush"}

\* line 197: global_lock can be taken; a thread holds it while at "lookup"
\* and, where lines 198-200 are taken one by one, at "create"
GlobalLockFree(t) == \A u \in Threads \ {t} : pc[u] \notin {"lookup", "create"}

\* _book line 197: with self.global_lock
BookEnter(t) ==
    /\ pc[t] = "submit"
    /\ GlobalLockFree(t)
    /\ pc' = [pc EXCEPT ![t] = "lookup"]
    /\ UNCHANGED <<orders, trades, order_ids, trade_ids, rowlock, books, sess,
                   req, ledger, blockchain_available, add_call, services, cancel_true>>

\* _book lines 198-200: get or create the book, leave the with-block
BookLookup(t) ==
    /\ pc[t] = "lookup"
    /\ LET symbol == BookSymbol(sess[t].cur[req[t].id])
       IN /\ books' = GetBook(books, symbol)
          /\ req' = [req EXCEPT ![t].symbol = symbol]
    /\ pc' = [pc EXCEPT ![t] = "lock"]
    /\ UNCHANGED <<orders, trades, order_ids, trade_ids, rowlock, sess,
                   ledger, blockchain_available, add_call, services, cancel_true>>

\* a membership test that never finds the symbol
BookKnownNever(registry, symbol) == FALSE

\* _book line 198, negated: the symbol has its book
BookKnown(registry, symbol) == symbol \in DOMAIN registry

\* _book line 198 taken on its own: the test, under the global lock; a book
\* that exists is returned (line 200) and the with-block left
BookTest(t) ==
    /\ pc[t] = "lookup"
    /\ LET symbol == BookSymbol(sess[t].cur[req[t].id])
       IN /\ req' = [req EXCEPT ![t].symbol = symbol]
          /\ pc' = [pc EXCEPT ![t] = IF BookKnown(books, symbol)
                                     THEN "lock" ELSE "create"]
    /\ UNCHANGED <<orders, trades, order_ids, trade_ids, rowlock, books, sess,
                   ledger, blockchain_available, add_call, services, cancel_true>>

\* _book lines 199-200: register a new OrderBook, return it, leave the
\* with-block
BookMake(t) ==
    /\ pc[t] = "create"
    /\ books' = Put(books, req[t].symbol, NewOrderBook)
    /\ pc' = [pc EXCEPT ![t] = "lock"]
    /\ UNCHANGED <<orders, trades, order_ids, trade_ids, rowlock, sess, req,
                   ledger, blockchain_available, add_call, services, cancel_true>>

\* submit_and_match lines 205-206: acquire book.lock, book.add(order)
LockAdd(t) ==
    /\ pc[t] = "lock"
    /\ CanLock(books[req[t].symbol])
    /\ books' = [books EXCEPT ![req[t].symbol] =
                    [BookAdd(@, req[t].id, sess[t].cur[req[t].id])
                        EXCEPT !.lock = t]]
    /\ pc' = [pc EXCEPT ![t] = "match"]
    /\ UNCHANGED <<orders, trades, order_ids, trade_ids, rowlock, sess, req,
                   ledger, blockchain_available, add_call, services, cancel_true>>

\* ------------------------------------------------------------ match_all
\* Crosses with a strict comparison
CrossesStrict(bid, ask) == bid.price > ask.price

\* line 123 negated: the loop goes on to trade
Crosses(bid, ask) == ~(bid.price < ask.price)

\* TradeQty that takes the bid's remaining for the minimum
TradeQtyBid(bid, ask) == bid.remaining

\* line 126
TradeQty(bid, ask) == Min2(bid.remaining, ask.remaining)

\* TradePrice that takes the bid's price
TradePriceBid(bid, ask) == bid.price

\* line 127
TradePrice(bid, ask) == ask.price

\* lines 173-177 for one order row
Fill(row, qty) ==
    LET filled == row.filled_quantity + qty
    IN [row EXCEPT !.filled_quantity = filled,
                   !.status = IF filled >= row.quantity THEN "FILLED" ELSE "PARTIAL"]

NewTrade(buy_id, sell_id, symbol, price, qty, tx_hash) ==
    [buy_order_id |-> buy_id, sell_order_id |-> sell_id, symbol |-> symbol,
     price |-> price, quantity |-> qty, blockchain_tx_hash |-> tx_hash]

\* match_all returns: submit_and_match leaves the with-block
MatchReturn(t, symbol, book) ==
    /\ books' = [books EXCEPT ![symbol] = [book EXCEPT !.lock = NoThread]]
    /\ pc' = [pc EXCEPT ![t] = "commit"]
    /\ UNCHANGED <<orders, trades, order_ids, trade_ids, rowlock, sess, req,
                   ledger, blockchain_available, add_call, services, cancel_true>>

\* a missing row that is skipped without invalidating the two entries
MatchMissingKeeps(t, symbol, book, bid, ask) ==
    /\ books' = [books EXCEPT ![symbol] = book]
    /\ sess' = [sess EXCEPT ![t] =
                   IF Visible(t, bid) THEN Load(@, bid)
                   ELSE IF Visible(t, ask) THEN Load(@, ask) ELSE @]
    /\ UNCHANGED <<orders, trades, order_ids, trade_ids, rowlock, pc, req,
                   ledger, blockchain_available, add_call, services, cancel_true>>

\* lines 131-134: a row is missing
MatchMissing(t, symbol, book, bid, ask) ==
    /\ books' = [books EXCEPT ![symbol] =
                    [book EXCEPT !.entries[bid].remaining = 0,
                                 !.entries[ask].remaining = 0]]
    /\ sess' = [sess EXCEPT ![t] =
                   IF Visible(t, bid) THEN Load(@, bid)
                   ELSE IF Visible(t, ask) THEN Load(@, ask) ELSE @]
    /\ UNCHANGED <<orders, trades, order_ids, trade_ids, rowlock, pc, req,
                   ledger, blockchain_available, add_call, services, cancel_true>>

\* a cancelled row that makes match_all drop every entry of the book
MatchCancelledAll(t, symbol, book, oid, s) ==
    /\ books' = [books EXCEPT ![symbol] =
                    [book EXCEPT !.entries =
                        [o \in DOMAIN @ |-> [@[o] EXCEPT !.cancelled = TRUE]]]]
    /\ sess' = [sess EXCEPT ![t] = s]
    /\ UNCHANGED <<orders, trades, order_ids, trade_ids, rowlock, pc, req,
                   ledger, blockchain_available, add_call, services, cancel_true>>

\* lines 137-142: a row is CANCELLED in the store
MatchCancelled(t, symbol, book, oid, s) ==
    /\ books' = [books EXCEPT ![symbol] =
                    [book EXCEPT !.entries[oid].cancelled = TRUE]]
    /\ sess' = [sess EXCEPT ![t] = s]
    /\ UNCHANGED <<orders, trades, order_ids, trade_ids, rowlock, pc, req,
                   ledger, blockchain_available, add_call, services, cancel_true>>

\* TxHash that attaches a reference whatever the call did
TxHashAlways(outcome) == TxRef

\* lines 156-170: trade.blockchain_tx_hash after the ledger call
TxHash(outcome) == IF outcome = TxRef THEN TxRef ELSE "None"

\* lines 144-188: one trade; outcome is what record_trade did
MatchTrade(t, symbol, book, bid, ask, s, outcome) ==
    LET be == book.entries[bid]
        ae == book.entries[ask]
        qty == TradeQty(be, ae)
        price == TradePrice(be, ae)
        id == trade_ids + 1
        tx_hash == TxHash(outcome)
        trade == NewTrade(bid, ask, symbol, price, qty, tx_hash)
        cur1 == [s.cur EXCEPT ![bid] = Fill(@, qty)]
        cur2 == [cur1 EXCEPT ![ask] = Fill(@, qty)]
        book1 == [book EXCEPT !.entries[bid].remaining = @ - qty]
        book2 == [book1 EXCEPT !.entries[ask].remaining = @ - qty]
        book3 == [book2 EXCEPT
                    !.bids = IF book2.entries[bid].remaining <= 0
                             THEN HeapPop(@) ELSE @,
                    !.asks = IF book2.entries[ask].remaining <= 0
                             THEN HeapPop(@) ELSE @]
    IN /\ trade_ids' = id
       /\ sess' = [sess EXCEPT ![t] =
                      [s EXCEPT !.cur = cur2, !.trades = Put(@, id, trade)]]
       /\ ledger' = IF outcome = "off" THEN ledger ELSE Put(ledger, id, outcome)
       /\ books' = [books EXCEPT ![symbol] = book3]
       /\ IF LockFree(t, bid) /\ LockFree(t, ask)
          THEN /\ rowlock' = Acquire(t, {bid, ask})
               /\ UNCHANGED <<pc, req>>
          ELSE /\ pc' = [pc EXCEPT ![t] = "flush"]
               /\ req' = [req EXCEPT ![t].wait = {bid, ask}]
               /\ UNCHANGED rowlock
       /\ UNCHANGED <<orders, trades, order_ids, blockchain_available, add_call, services,
                      cancel_true>>

\* line 183: the UPDATEs of db.flush() get through once the rows are free;
\* the thread holds the book lock meanwhile, so lines 185-188 are not seen apart
FlushWaited(t) ==
    /\ pc[t] = "flush"
    /\ \A id \in req[t].wait : LockFree(t, id)
    /\ rowlock' = Acquire(t, req[t].wait)
    /\ req' = [req EXCEPT ![t].wait = {}]
    /\ pc' = [pc EXCEPT ![t] = "match"]
    /\ UNCHANGED <<orders, trades, order_ids, trade_ids, books, sess, ledger,
                   blockchain_available, add_call, services, cancel_true>>

\* one iteration of the loop of match_all, under the book lock
MatchStep(t) ==
    /\ pc[t] = "match"
    /\ LET symbol == req[t].symbol
           b0 == books[symbol]
           book == [b0 EXCEPT !.bids = PruneTop(b0.bids, b0.entries),
                              !.asks = PruneTop(b0.asks, b0.entries)]
           bid == TopValid(b0.bids, b0.entries)
           ask == TopValid(b0.asks, b0.entries)
           s == Load(Load(sess[t], bid), ask)
       IN IF bid = NoOrder \/ ask = NoOrder
          THEN MatchReturn(t, symbol, book)
          ELSE IF ~Crosses(book.entries[bid], book.entries[ask])
          THEN MatchReturn(t, symbol, book)
          ELSE IF ~Visible(t, bid) \/ ~Visible(t, ask)
          THEN MatchMissing(t, symbol, book, bid, ask)
          ELSE IF s.cur[bid].status = "CANCELLED"
          THEN MatchCancelled(t, symbol, book, bid, s)
          ELSE IF s.cur[ask].status = "CANCELLED"
          THEN MatchCancelled(t, symbol, book, ask, s)
          ELSE IF blockchain_available
          THEN \E outcome \in {TxRef, "raised"} :
                  MatchTrade(t, symbol, book, bid, ask, s, outcome)
          ELSE MatchTrade(t, symbol, book, bid, ask, s, "off")

\* post_order: db.commit()
Commit(t) ==
    /\ pc[t] = "commit"
    /\ orders' = CommitOrders(sess[t])
    /\ trades' = CommitTrades(sess[t])
    /\ rowlock' = Release(t)
    /\ sess' = [sess EXCEPT ![t] = EmptySession]
    /\ req' = [req EXCEPT ![t] = IdleReq]
    /\ pc' = [pc EXCEPT ![t] = "idle"]
    /\ UNCHANGED <<order_ids, trade_ids, books, ledger, blockchain_available, add_call,
                   services, cancel_true>>

\* -------------------------------------------------------- store failures
\* RollbackOrders of a handler that commits what the session holds
RollbackOrdersCommits(s) == CommitOrders(s)

\* post_order lines 33-34: table orders after db.rollback()
RollbackOrders(s) == orders

\* post_order lines 33-34: table trades after db.rollback()
RollbackTrades(s) == trades

\* post_order lines 33-35: except Exception: db.rollback(); raise
Rollback(t) ==
    /\ orders' = RollbackOrders(sess[t])
    /\ trades' = RollbackTrades(sess[t])
    /\ rowlock' = Release(t)
    /\ sess' = [sess EXCEPT ![t] = EmptySession]
    /\ req' = [req EXCEPT ![t] = IdleReq]
    /\ pc' = [pc EXCEPT ![t] = "idle"]

\* the book as lines 119-120 leave it
Pruned(b0) ==
    [b0 EXCEPT !.bids = PruneTop(b0.bids, b0.entries),
               !.asks = PruneTop(b0.asks, b0.entries)]

\* lines 119-124 found a pair to trade: the loop is at line 126
PairFound(book) ==
    LET bid == TopValid(book.bids, book.entries)
        ask == TopValid(book.asks, book.entries)
    IN /\ bid # NoOrder
       /\ ask # NoOrder
       /\ Crosses(book.entries[bid], book.entries[ask])

\* FailBeforeTrade of a submit_and_match that takes the lock without a
\* with-block: the exception leaves the lock held
FailBeforeTradeHolds(t) ==
    /\ pc[t] = "match"
    /\ PairFound(books[req[t].symbol])
    /\ books' = [books EXCEPT ![req[t].symbol] = Pruned(@)]
    /\ Rollback(t)
    /\ UNCHANGED <<order_ids, trade_ids, ledger, blockchain_available, add_call,
                   services, cancel_true>>

\* db.get (lines 129-130) or the INSERT of the trade (line 153) raises: the
\* exception leaves match_all and the with-block, post_order rolls back
FailBeforeTrade(t) ==
    /\ pc[t] = "match"
    /\ PairFound(books[req[t].symbol])
    /\ books' = [books EXCEPT ![req[t].symbol] =
                    [Pruned(@) EXCEPT !.lock = NoThread]]
    /\ Rollback(t)
    /\ UNCHANGED <<order_ids, trade_ids, ledger, blockchain_available, add_call, services,
                   cancel_true>>

\* the UPDATEs of line 183 raise: the trade has its id, record_trade was
\* called, lines 180-181 have run and lines 185-188 have not
FailAfterTrade(t, outcome) ==
    /\ pc[t] = "match"
    /\ PairFound(books[req[t].symbol])
    /\ LET symbol == req[t].symbol
           book == Pruned(books[symbol])
           bid == TopValid(book.bids, book.entries)
           ask == TopValid(book.asks, book.entries)
           s == Load(Load(sess[t], bid), ask)
           qty == TradeQty(book.entries[bid], book.entries[ask])
       IN /\ Visible(t, bid) /\ Visible(t, ask)
          /\ s.cur[bid].status # "CANCELLED"
          /\ s.cur[ask].status # "CANCELLED"
          /\ books' = [books EXCEPT ![symbol] =
                          [book EXCEPT !.entries[bid].remaining = @ - qty,
                                       !.entries[ask].remaining = @ - qty,
                                       !.lock = NoThread]]
    /\ trade_ids' = trade_ids + 1
    /\ ledger' = IF outcome = "off" THEN ledger
                 ELSE Put(ledger, trade_ids + 1, outcome)
    /\ Rollback(t)
    /\ UNCHANGED <<order_ids, blockchain_available, add_call, services, cancel_true>>

\* post_order line 27: db.commit() raises
CommitFails(t) ==
    /\ pc[t] = "commit"
    /\ Rollback(t)
    /\ UNCHANGED <<order_ids, trade_ids, books, ledger, blockchain_available, add_call,
                   services, cancel_true>>

\* a store call of the request of thread t raises
StoreFailure(t) ==
    \/ FailBeforeTrade(t)
    \/ IF blockchain_available
       THEN \E outcome \in {TxRef, "raised"} : FailAfterTrade(t, outcome)
       ELSE FailAfterTrade(t, "off")
    \/ CommitFails(t)

\* ---------------------------------------------------------------- cancel
\* Uncancellable without FILLED
UncancellableOpen == {"CANCELLED", "REJECTED"}

\* cancel_order line 66: the statuses a cancel is refused for
Uncancellable == {"FILLED", "CANCELLED", "REJECTED"}

\* cancel_order lines 60-67: db.get and the two rejections (404, 400)
CancelCheck(t, x_user_id, order_id) ==
    /\ pc[t] = "idle"
    /\ IF order_id \notin DOMAIN orders
       THEN UNCHANGED vars
       ELSE IF orders[order_id].user_id # dev_user_id(x_user_id)
       THEN UNCHANGED vars
       ELSE IF orders[order_id].status \in Uncancellable
       THEN UNCHANGED vars
       ELSE /\ sess' = [sess EXCEPT ![t] = Load(@, order_id)]
            /\ req' = [req EXCEPT ![t] =
                          [IdleReq EXCEPT !.id = order_id,
                                          !.symbol = orders[order_id].symbol,
                                          !.user_id = dev_user_id(x_user_id)]]
            /\ pc' = [pc EXCEPT ![t] = "cancel_commit"]
            /\ UNCHANGED <<orders, trades, order_ids, trade_ids, rowlock, books,
                           ledger, blockchain_available, add_call, services, cancel_true>>

\* cancel_order lines 69-70: order.status = "CANCELLED"; db.commit()
CancelCommit(t) ==
    /\ pc[t] = "cancel_commit"
    /\ LockFree(t, req[t].id)
    /\ LET s == [sess[t] EXCEPT !.cur[req[t].id].status = "CANCELLED"]
       IN orders' = CommitOrders(s)
    /\ sess' = [sess EXCEPT ![t] = EmptySession]
    /\ pc' = [pc EXCEPT ![t] = "cancel_engine"]
    /\ UNCHANGED <<trades, order_ids, trade_ids, rowlock, books, req, ledger,
                   blockchain_available, add_call, services,
                   cancel_true>>

\* a cancel that looks the book up through _book, which creates it
EngineCancelCreates(registry, symbol, order_id) ==
    [GetBook(registry, symbol) EXCEPT ![symbol] = BookCancel(@, order_id)]

\* MatchingEngine.cancel: the registry afterwards, and the value returned
EngineCancel(registry, symbol, order_id) ==
    IF symbol \notin DOMAIN registry THEN registry
    ELSE [registry EXCEPT ![symbol] = BookCancel(@, order_id)]

EngineCancelResult(registry, symbol, order_id) ==
    IF symbol \notin DOMAIN registry THEN FALSE
    ELSE BookCancelResult(registry[symbol], order_id)

Returned(symbol, order_id) ==
    IF EngineCancelResult(books, symbol, order_id)
    THEN cancel_true \cup {order_id} ELSE cancel_true

\* cancel_order line 72
CancelEngine(t) ==
    /\ pc[t] = "cancel_engine"
    /\ req[t].symbol \in DOMAIN books => CanLock(books[req[t].symbol])
    /\ books' = EngineCancel(books, req[t].symbol, req[t].id)
    /\ cancel_true' = Returned(req[t].symbol, req[t].id)
    /\ req' = [req EXCEPT ![t] = IdleReq]
    /\ pc' = [pc EXCEPT ![t] = "idle"]
    /\ UNCHANGED <<orders, trades, order_ids, trade_ids, rowlock, sess, ledger,
                   blockchain_available, add_call, services>>

\* a caller of MatchingEngine.cancel that has not written the store
DirectCancel(symbol, order_id) ==
    /\ symbol \in DOMAIN books => CanLock(books[symbol])
    /\ books' = EngineCancel(books, symbol, order_id)
    /\ cancel_true' = Returned(symbol, order_id)
    /\ UNCHANGED <<orders, trades, order_ids, trade_ids, rowlock, sess, pc, req,
                   ledger, blockchain_available, add_call, services>>

\* no request is in flight
Quiescent == \A t \in Threads : pc[t] = "idle"

\* -------------------------------------------------------- rebuild_from_db
\* OpenStatuses that also takes cancelled orders back
OpenStatusesAll == {"NEW", "PARTIAL", "CANCELLED"}

\* line 25: the statuses the query filters on
OpenStatuses == {"NEW", "PARTIAL"}

\* lines 23-28: the answers the store may give to the query, rows of equal
\* created_at in any order (ORDER BY names no second key)
OpenOrders(store) ==
    LET ids == {id \in DOMAIN store : store[id].status \in OpenStatuses}
    IN {q \in [1..Cardinality(ids) -> ids] :
          /\ \A i, j \in DOMAIN q : i # j => q[i] # q[j]
          /\ \A i, j \in DOMAIN q :
                i < j => store[q[i]].created_at <= store[q[j]].created_at}

\* lines 31-33 for one order: _book, then add under the book's lock
RebuildAdd(registry, id, row) ==
    LET r == GetBook(registry, row.symbol)
    IN [r EXCEPT ![row.symbol] = BookAdd(@, id, row)]

\* lines 30-33: the registry after the loop over open_orders from index i
RECURSIVE RebuildLoop(_, _, _, _)
RebuildLoop(registry, store, open_orders, i) ==
    IF i > Len(open_orders) THEN registry
    ELSE RebuildLoop(RebuildAdd(registry, open_orders[i], store[open_orders[i]]),
                     store, open_orders, i + 1)

\* the registries rebuild_from_db may leave when it starts from registry
RebuildFromDb(registry, store) ==
    {RebuildLoop(registry, store, q, 1) : q \in OpenOrders(store)}

\* the process is started again between two requests: a new MatchingEngine
\* (line 217), then startup_rebuild_books
Restart ==
    /\ Quiescent
    /\ books' \in RebuildFromDb(EmptyMap, orders)
    /\ cancel_true' = {}
    /\ UNCHANGED <<orders, trades, order_ids, trade_ids, rowlock, sess, pc, req,
                   ledger, blockchain_available, add_call, services>>

\* rebuild_from_db is run once more on the engine as the run at startup left
\* it, the store unchanged
RebuildAgain ==
    /\ Quiescent
    /\ books \in RebuildFromDb(EmptyMap, orders)
    /\ books' \in RebuildFromDb(books, orders)
    /\ UNCHANGED <<orders, trades, order_ids, trade_ids, rowlock, sess, pc, req,
                   ledger, blockchain_available, add_call, services, cancel_true>>

\* ------------------------------------------------------ siwe_nonce_store
\* the nonces generate_nonce can give
Nonces == 1..MaxNonces

nonce_key(nonce) == <<"siwe:nonce:", nonce>>

\* GET /auth/siwe/nonce: generate_nonce gives a nonce not given before,
\* put_nonce stores its key
SiweNonce(nonce) ==
    /\ nonce \notin DOMAIN nonce_true
    /\ nonces' = nonces \cup {nonce_key(nonce)}
    /\ nonce_true' = Put(nonce_true, nonce, 0)
    /\ UNCHANGED <<orders, trades, order_ids, trade_ids, rowlock, books, sess,
                   pc, req, ledger, blockchain_available, add_call, cancel_true, users,
                   tokens, notifications>>

\* redis drops the key when its TTL has run out (setex, line 17)
Expire(nonce) ==
    /\ nonce_key(nonce) \in nonces
    /\ nonces' = nonces \ {nonce_key(nonce)}
    /\ UNCHANGED <<orders, trades, order_ids, trade_ids, rowlock, books, sess,
                   pc, req, ledger, blockchain_available, add_call, cancel_true,
                   nonce_true, users, tokens, notifications>>

\* consume_nonce lines 21-24: r.get; False when the key is not there
ConsumeRead(t, nonce) ==
    /\ pc[t] = "idle"
    /\ IF nonce_key(nonce) \notin nonces
       THEN UNCHANGED vars
       ELSE /\ pc' = [pc EXCEPT ![t] = "consume_delete"]
            /\ req' = [req EXCEPT ![t] = [nonce |-> nonce]]
            /\ UNCHANGED <<orders, trades, order_ids, trade_ids, rowlock, books,
                           sess, ledger, blockchain_available, add_call, cancel_true,
                           nonces, nonce_true, users, tokens, notifications>>

\* consume_nonce lines 25-26: r.delete; return True
ConsumeDelete(t) ==
    /\ pc[t] = "consume_delete"
    /\ nonces' = nonces \ {nonce_key(req[t].nonce)}
    /\ nonce_true' = [nonce_true EXCEPT ![req[t].nonce] = @ + 1]
    /\ pc' = [pc EXCEPT ![t] = "idle"]
    /\ req' = [req EXCEPT ![t] = IdleReq]
    /\ UNCHANGED <<orders, trades, order_ids, trade_ids, rowlock, books, sess,
                   ledger, blockchain_available, add_call, cancel_true, users, tokens,
                   notifications>>

\* ------------------------------------------------------------ siwe_login
\* APP_DOMAIN and APP_ORIGIN (auth.py lines 83-84, the defaults); a string
\* that is tested with startswith is a sequence of its parts
AppDomain == "localhost"
AppOrigin == <<"http://", "localhost:8000">>

Addresses == {"0xA", "0xB"}
NoAddress == "none"

\* the login requests: whether the message parses, the fields of the parsed
\* message, and the address recover_address gives for message and signature
\* (NoAddress when it raises)
LoginRequests ==
    [parses : BOOLEAN, nonce : Nonces, domain : {AppDomain, "evil.example"},
     uri : {AppOrigin, AppOrigin \o <<"/login">>, <<"http://", "evil.example">>},
     address : Addresses, recovered : Addresses \cup {NoAddress}]

\* str.startswith
StartsWith(s, prefix) ==
    /\ Len(s) >= Len(prefix)
    /\ SubSeq(s, 1, Len(prefix)) = prefix

\* a login that does not look at the domain
DomainOkAny(msg) == TRUE

\* line 86
DomainOk(msg) == ~(msg.domain # AppDomain)

\* lines 86-99: the checks after the nonce
LoginChecks(msg) ==
    /\ DomainOk(msg)
    /\ StartsWith(msg.uri, AppOrigin)
    /\ msg.recovered # NoAddress
    /\ ~(msg.recovered # msg.address)

\* siwe_login lines 73-79 and consume_nonce's r.get: 400 when the message
\* does not parse, 401 when the nonce's key is not there
LoginRead(t, payload) ==
    /\ pc[t] = "idle"
    /\ IF ~payload.parses \/ nonce_key(payload.nonce) \notin nonces
       THEN UNCHANGED vars
       ELSE /\ pc' = [pc EXCEPT ![t] = "login_delete"]
            /\ req' = [req EXCEPT ![t] = payload]
            /\ UNCHANGED <<orders, trades, order_ids, trade_ids, rowlock, books,
                           sess, ledger, blockchain_available, add_call, cancel_true,
                           nonces, nonce_true, users, tokens, notifications>>

\* consume_nonce's r.delete and return True, then siwe_login lines 82-123:
\* the checks, find-or-create of the user, the token
LoginFinish(t) ==
    /\ pc[t] = "login_delete"
    /\ nonces' = nonces \ {nonce_key(req[t].nonce)}
    /\ nonce_true' = [nonce_true EXCEPT ![req[t].nonce] = @ + 1]
    /\ IF LoginChecks(req[t])
       THEN /\ users' = users \cup {req[t].address}
            /\ tokens' = tokens \cup {req[t]}
       ELSE UNCHANGED <<users, tokens>>
    /\ pc' = [pc EXCEPT ![t] = "idle"]
    /\ req' = [req EXCEPT ![t] = IdleReq]
    /\ UNCHANGED <<orders, trades, order_ids, trade_ids, rowlock, books, sess,
                   ledger, blockchain_available, add_call, cancel_true, notifications>>

\* --------------------------------------------------- NotificationService
NotificationUsers == {1, 2}

\* read_at: NoTime is None, Earlier a time before the calls, Now the
\* datetime.utcnow() of a call
NoTime == 0
Earlier == 1
Now == 2

\* the rows a notifications table can hold
NotificationRows ==
    [user_id : NotificationUsers, is_read : BOOLEAN, read_at : {NoTime, Earlier}]

\* lines 107-113 and 165-171 without the test of the user
SelectOwnedAnyUser(table, notification_id, user_id) ==
    notification_id \in DOMAIN table

\* lines 107-113 and 165-171: the select finds a row
SelectOwned(table, notification_id, user_id) ==
    /\ notification_id \in DOMAIN table
    /\ table[notification_id].user_id = user_id

\* lines 136-142 without the test of the user
SelectUnreadAnyUser(table, user_id) ==
    {id \in DOMAIN table : table[id].is_read = FALSE}

\* lines 136-142 and 190-195: the ids the select returns
SelectUnread(table, user_id) ==
    {id \in DOMAIN table : table[id].user_id = user_id /\ table[id].is_read = FALSE}

\* lines 144-149: the loop over the selected rows; <<table, count>> after it
RECURSIVE MarkLoop(_, _, _)
MarkLoop(table, ids, count) ==
    IF ids = {} THEN <<table, count>>
    ELSE LET id == CHOOSE x \in ids : TRUE
         IN MarkLoop([table EXCEPT ![id].is_read = TRUE, ![id].read_at = Now],
                     ids \ {id}, count + 1)

\* the value mark_all_as_read returns
MarkAllAsReadCount(table, user_id) ==
    MarkLoop(table, SelectUnread(table, user_id), 0)[2]

get_unread_count(table, user_id) == Cardinality(SelectUnread(table, user_id))

mark_all_as_read(user_id) ==
    /\ notifications' = MarkLoop(notifications,
                                 SelectUnread(notifications, user_id), 0)[1]
    /\ UNCHANGED <<orders, trades, order_ids, trade_ids, rowlock, books, sess,
                   pc, req, ledger, blockchain_available, add_call, cancel_true, nonces,
                   nonce_true, users, tokens>>

\* mark_as_read returns the row (TRUE) or None (FALSE)
MarkAsReadFound(table, notification_id, user_id) ==
    SelectOwned(table, notification_id, user_id)

mark_as_read(notification_id, user_id) ==
    /\ notifications' =
          IF SelectOwned(notifications, notification_id, user_id)
          THEN [notifications EXCEPT ![notification_id].is_read = TRUE,
                                     ![notification_id].read_at = Now]
          ELSE notifications
    /\ UNCHANGED <<orders, trades, order_ids, trade_ids, rowlock, books, sess,
                   pc, req, ledger, blockchain_available, add_call, cancel_true, nonces,
                   nonce_true, users, tokens>>

\* the value delete_notification returns
DeleteResult(table, notification_id, user_id) ==
    SelectOwned(table, notification_id, user_id)

delete_notification(notification_id, user_id) ==
    /\ notifications' =
          IF SelectOwned(notifications, notification_id, user_id)
          THEN [id \in (DOMAIN notifications) \ {notification_id} |->
                   notifications[id]]
          ELSE notifications
    /\ UNCHANGED <<orders, trades, order_ids, trade_ids, rowlock, books, sess,
                   pc, req, ledger, blockchain_available, add_call, cancel_true, nonces,
                   nonce_true, users, tokens>>

\* ------------------------------------------------------- specifications
Init ==
    /\ orders = EmptyMap
    /\ trades = EmptyMap
    /\ order_ids = 0
    /\ trade_ids = 0
    /\ rowlock = EmptyMap
    /\ books = EmptyMap
    /\ sess = [t \in Threads |-> EmptySession]
    /\ pc = [t \in Threads |-> "idle"]
    /\ req = [t \in Threads |-> IdleReq]
    /\ ledger = EmptyMap
    /\ blockchain_available \in BOOLEAN
    /\ cancel_true = {}
    /\ nonces = {}
    /\ nonce_true = EmptyMap
    /\ users = {}
    /\ tokens = {}
    /\ notifications = EmptyMap
    /\ add_call = <<>>

\* the creation timestamps of the rows that exist, committed or not
Stamps ==
    {orders[id].created_at : id \in DOMAIN orders}
        \cup UNION {{sess[t].cur[id].created_at : id \in DOMAIN sess[t].cur} :
                       t \in Threads}

\* the latest reading of the clock that a row keeps, 0 before the first
LastStamp == IF Stamps = {} THEN 0 ELSE CHOOSE x \in Stamps : \A y \in Stamps : y <= x

\* a request arrives at thread t; the clock has moved on since the last order
Arrive(t, symbols, limit) ==
    \/ /\ order_ids < limit
       /\ \E symbol \in symbols, side \in Sides, type \in OrderTypes,
             price \in RequestPrices, quantity \in 0..MaxQty :
             PostOrder(t, NoHeader, symbol, side, type, price, quantity,
                       LastStamp + 1)
    \/ \E order_id \in 1..limit : CancelCheck(t, NoHeader, order_id)

\* the same for requests that carry the header X-User-Id or not
ArriveAs(t, headers, symbols, limit) ==
    \/ /\ order_ids < limit
       /\ \E x_user_id \in headers, symbol \in symbols, side \in Sides,
             type \in OrderTypes, price \in RequestPrices, quantity \in 0..MaxQty :
             PostOrder(t, x_user_id, symbol, side, type, price, quantity,
                       LastStamp + 1)
    \/ \E x_user_id \in headers, order_id \in 1..limit :
          CancelCheck(t, x_user_id, order_id)

\* the same where the clock may not have moved on: two orders can get the
\* same created_at
ArriveTied(t, symbols, limit) ==
    \/ /\ order_ids < limit
       /\ \E symbol \in symbols, side \in Sides, type \in OrderTypes,
             price \in RequestPrices, quantity \in 0..MaxQty,
             created_at \in {LastStamp, LastStamp + 1} \ {0} :
             PostOrder(t, NoHeader, symbol, side, type, price, quantity,
                       created_at)
    \/ \E order_id \in 1..limit : CancelCheck(t, NoHeader, order_id)

\* thread t goes on with the request it is serving
Proceed(t) ==
    \/ SubmitAdd(t)
    \/ MatchStep(t)
    \/ Commit(t)
    \/ CancelCommit(t)
    \/ CancelEngine(t)

\* requests served one at a time by one worker
Next ==
    \/ Arrive(1, RequestSymbols, MaxOrders)
    \/ Proceed(1)

Spec == Init /\ [][Next]_vars

\* the same, and the engine's cancel is also called without a store write
NextEngine ==
    \/ Arrive(1, OneSymbol, MaxOrders)
    \/ Proceed(1)
    \/ /\ Quiescent
       /\ \E symbol \in Symbols, order_id \in 1..MaxOrders :
             DirectCancel(symbol, order_id)

SpecEngine == Init /\ [][NextEngine]_vars

\* the build as it stands: blockchain.py defines no blockchain_adapter, the
\* import at matching.py lines 13-19 fails and BLOCKCHAIN_AVAILABLE is False
InitConc == Init /\ ~blockchain_available

\* requests served concurrently, one thread per request in flight
NextConc ==
    \E t \in Threads :
        \/ Arrive(t, OneSymbol, MaxConcOrders)
        \/ Proceed(t)
        \/ FlushWaited(t)

SpecConc == InitConc /\ [][NextConc]_vars

\* concurrent requests where every store call returns: a thread that can
\* go on with its request does so (a commit ends, a row lock is granted
\* once free); cancel requests name the orders up to MaxCancelId
ArriveLive(t) ==
    \/ /\ order_ids < MaxConcOrders
       /\ \E symbol \in OneSymbol, side \in Sides, type \in OrderTypes,
             price \in RequestPrices, quantity \in 0..MaxQty :
             PostOrder(t, NoHeader, symbol, side, type, price, quantity,
                       LastStamp + 1)
    \/ \E order_id \in 1..MaxCancelId : CancelCheck(t, NoHeader, order_id)

NextLive ==
    \E t \in Threads :
        \/ ArriveLive(t)
        \/ Proceed(t)
        \/ FlushWaited(t)

SpecLive ==
    /\ InitConc
    /\ [][NextLive]_vars
    /\ \A t \in Threads : WF_vars(Proceed(t) \/ FlushWaited(t))

\* requests served one at a time, store calls may raise
NextFail ==
    \/ Arrive(1, OneSymbol, MaxOrders)
    \/ Proceed(1)
    \/ StoreFailure(1)

SpecFail == Init /\ [][NextFail]_vars

\* the same where every call returns or raises: the worker goes on with the
\* request it is serving
SpecFailLive == SpecFail /\ WF_vars(Proceed(1))

\* a request for one symbol arrives at thread t
ArriveOn(t, symbol, limit) ==
    \/ /\ order_ids < limit
       /\ \E side \in Sides, type \in OrderTypes,
             price \in RequestPrices, quantity \in 0..MaxQty :
             PostOrder(t, NoHeader, symbol, side, type, price, quantity,
                       LastStamp + 1)
    \/ \E order_id \in 1..limit :
          /\ order_id \in DOMAIN orders => orders[order_id].symbol = symbol
          /\ CancelCheck(t, NoHeader, order_id)

\* thread t goes on with its request, _book and the two locks step by step
Continue(t) ==
    \/ BookEnter(t)
    \/ BookLookup(t)
    \/ LockAdd(t)
    \/ MatchStep(t)
    \/ Commit(t)
    \/ CancelCommit(t)
    \/ CancelEngine(t)

\* thread 1 serves the requests for AAPL, thread 2 those for MSFT
NextSymbols ==
    \/ ArriveOn(1, "AAPL", MaxConcOrders)
    \/ ArriveOn(2, "MSFT", MaxConcOrders)
    \/ Continue(1)
    \/ Continue(2)

\* thread 1 may stall at any store or ledger call and at its commit, but
\* not inside _book, which does no I/O; thread 2 keeps running
SpecSymbols ==
    /\ InitConc
    /\ [][NextSymbols]_vars
    /\ WF_vars(BookLookup(1))
    /\ WF_vars(Continue(2))

\* requests served one at a time, and the process restarted between them
NextRecovery ==
    \/ Arrive(1, RequestSymbols, MaxOrders)
    \/ Proceed(1)
    \/ Restart
    \/ RebuildAgain

\* the same where two orders can get the same created_at
NextTies ==
    \/ ArriveTied(1, OneSymbol, MaxOrders)
    \/ Proceed(1)
    \/ Restart

SpecTies == InitConc /\ [][NextTies]_vars

\* thread t goes on with its request, the statements of _book one by one
ContinueBook(t) ==
    \/ BookEnter(t)
    \/ BookTest(t)
    \/ BookMake(t)
    \/ LockAdd(t)
    \/ MatchStep(t)
    \/ Commit(t)
    \/ CancelCommit(t)
    \/ CancelEngine(t)
    \/ FlushWaited(t)

\* a request for any symbol arrives at thread t; cancel requests name the
\* orders up to MaxCancelId
ArriveBook(t) ==
    \/ /\ order_ids < MaxConcOrders
       /\ \E symbol \in RequestSymbols, side \in Sides, type \in OrderTypes,
             price \in RequestPrices, quantity \in 0..MaxQty :
             PostOrder(t, NoHeader, symbol, side, type, price, quantity,
                       LastStamp + 1)
    \/ \E order_id \in 1..MaxCancelId : CancelCheck(t, NoHeader, order_id)

\* concurrent requests for the symbols of the platform
NextBook ==
    \E t \in Threads :
        \/ ArriveBook(t)
        \/ ContinueBook(t)

SpecBook == InitConc /\ [][NextBook]_vars

\* requests for two symbols served one at a time, and the engine's cancel
\* called for any symbol and order id without a store write
NextCancel ==
    \/ Arrive(1, RequestSymbols, MaxOrders)
    \/ Proceed(1)
    \/ /\ Quiescent
       /\ \E symbol \in Symbols, order_id \in 1..MaxOrders :
             DirectCancel(symbol, order_id)

SpecCancel == InitConc /\ [][NextCancel]_vars

\* the Order objects a caller can hand to OrderBook.add: any price or none,
\* any quantity and filled_quantity (the columns of models/order.py)
OrderObjects ==
    [symbol : {"AAPL"}, side : Sides,
     price : {NoPrice} \cup ((0 - 1)..MaxPrice),
     quantity : 0..MaxQty, filled_quantity : (0 - 1)..MaxQty,
     status : {"NEW"}, created_at : {1}, user_id : {1}, type : {"LIMIT"}]

\* a caller that holds an OrderBook and calls add(order) on it, as
\* app/tests/test_matching.py does; a raise leaves the book as it is
DirectAdd(symbol, id, order) ==
    /\ symbol \in DOMAIN books
    /\ CanLock(books[symbol])
    /\ books[symbol].seq_counter < MaxAdds
    /\ books' = IF AddRaises(order) THEN books
                ELSE [books EXCEPT ![symbol] = BookAdd(@, id, order)]
    /\ add_call' = <<[id |-> id, order |-> order, raised |-> AddRaises(order)]>>
    /\ UNCHANGED <<orders, trades, order_ids, trade_ids, rowlock, sess, pc, req,
                   ledger, blockchain_available, services, cancel_true>>

\* an engine with one empty book and an empty store
InitAdd ==
    /\ orders = EmptyMap
    /\ trades = EmptyMap
    /\ order_ids = 0
    /\ trade_ids = 0
    /\ rowlock = EmptyMap
    /\ books = [symbol \in {"AAPL"} |-> NewOrderBook]
    /\ sess = [t \in Threads |-> EmptySession]
    /\ pc = [t \in Threads |-> "idle"]
    /\ req = [t \in Threads |-> IdleReq]
    /\ ledger = EmptyMap
    /\ blockchain_available = FALSE
    /\ cancel_true = {}
    /\ nonces = {}
    /\ nonce_true = EmptyMap
    /\ users = {}
    /\ tokens = {}
    /\ notifications = EmptyMap
    /\ add_call = <<>>

NextAdd ==
    \E id \in 1..MaxOrders, order \in OrderObjects : DirectAdd("AAPL", id, order)

SpecAdd == InitAdd /\ [][NextAdd]_vars

\* requests of two users served one at a time: user 1 sends no header or
\* 0, user 2 sends 2
NextUsers ==
    \/ ArriveAs(1, {NoHeader, 0, 2}, OneSymbol, MaxOrders)
    \/ Proceed(1)

SpecUsers == InitConc /\ [][NextUsers]_vars

\* the nonce store used by requests that run concurrently
NextNonce ==
    \/ \E nonce \in Nonces : SiweNonce(nonce)
    \/ \E nonce \in Nonces : Expire(nonce)
    \/ \E t \in Threads, nonce \in Nonces : ConsumeRead(t, nonce)
    \/ \E t \in Threads : ConsumeDelete(t)

SpecNonce == InitConc /\ [][NextNonce]_vars

\* wallet logins served concurrently
NextSiwe ==
    \/ \E nonce \in Nonces : SiweNonce(nonce)
    \/ \E nonce \in Nonces : Expire(nonce)
    \/ \E t \in Threads, payload \in LoginRequests : LoginRead(t, payload)
    \/ \E t \in Threads : LoginFinish(t)

SpecSiwe == InitConc /\ [][NextSiwe]_vars

\* a notifications table with any rows under some of the ids, the rest of
\* the platform at rest
InitNotify ==
    /\ orders = EmptyMap
    /\ trades = EmptyMap
    /\ order_ids = 0
    /\ trade_ids = 0
    /\ rowlock = EmptyMap
    /\ books = EmptyMap
    /\ sess = [t \in Threads |-> EmptySession]
    /\ pc = [t \in Threads |-> "idle"]
    /\ req = [t \in Threads |-> IdleReq]
    /\ ledger = EmptyMap
    /\ blockchain_available = FALSE
    /\ cancel_true = {}
    /\ nonces = {}
    /\ nonce_true = EmptyMap
    /\ users = {}
    /\ tokens = {}
    /\ add_call = <<>>
    /\ \E ids \in SUBSET (1..MaxNotifications) :
          notifications \in [ids -> NotificationRows]

\* the calls of the notification service, one transaction each
NextNotify ==
    \/ \E user_id \in NotificationUsers : mark_all_as_read(user_id)
    \/ \E notification_id \in 1..(MaxNotifications + 1),
          user_id \in NotificationUsers :
          mark_as_read(notification_id, user_id)
    \/ \E notification_id \in 1..(MaxNotifications + 1),
          user_id \in NotificationUsers :
          delete_notification(notification_id, user_id)

SpecNotify == InitNotify /\ [][NextNotify]_vars

SpecRecovery == InitConc /\ [][NextRecovery]_vars

\* --------------------------------------------------------------- claims
RECURSIVE SumQty(_, _)
SumQty(rows, ids) ==
    IF ids = {} THEN 0
    ELSE LET id == CHOOSE x \in ids : TRUE
         IN rows[id].quantity + SumQty(rows, ids \ {id})

TradesOf(rows, order_id) ==
    {id \in DOMAIN rows : rows[id].buy_order_id = order_id
                          \/ rows[id].sell_order_id = order_id}

\* C1: for every stored order, filled_quantity equals the sum of the
\* quantities of the stored trades that name it as buy or sell order.
C1_FilledIsSumOfTrades ==
    \A id \in DOMAIN orders :
        orders[id].filled_quantity = SumQty(trades, TradesOf(trades, id))

\* C2: every stored order has 0 <= filled_quantity <= quantity, and a status
\* among NEW, PARTIAL, FILLED is NEW iff nothing is filled, PARTIAL iff part
\* is filled, FILLED iff all is filled.
C2_StatusMatchesFill ==
    \A id \in DOMAIN orders :
        LET o == orders[id]
        IN /\ 0 <= o.filled_quantity
           /\ o.filled_quantity <= o.quantity
           /\ o.status \in {"NEW", "PARTIAL", "FILLED"} =>
                 /\ o.status = "NEW" <=> o.filled_quantity = 0
                 /\ o.status = "PARTIAL" <=>
                       (0 < o.filled_quantity /\ o.filled_quantity < o.quantity)
                 /\ o.status = "FILLED" <=> o.filled_quantity = o.quantity

\* a PARTIAL order, a FILLED order and a CANCELLED order together
C2_Witness ==
    /\ Quiescent
    /\ \E a, b, c \in DOMAIN orders :
          /\ orders[a].status = "PARTIAL"
          /\ orders[b].status = "FILLED"
          /\ orders[c].status = "CANCELLED"

\* the entries of a book that _top_valid_* would accept, by side
ValidEntries(book, side) ==
    {id \in DOMAIN book.entries :
        /\ book.entries[id].side = side
        /\ ~book.entries[id].cancelled
        /\ book.entries[id].remaining > 0}

NotCrossable(book) ==
    \A b \in ValidEntries(book, "BUY"), a \in ValidEntries(book, "SELL") :
        book.entries[b].price < book.entries[a].price

\* the stored orders that rest: accepted, not fully filled, not cancelled
Resting(side) ==
    {id \in DOMAIN orders : /\ orders[id].side = side
                            /\ orders[id].status \in {"NEW", "PARTIAL"}}

\* C3: when match_all has returned, no valid bid of the book has a price at or
\* above a valid ask's; so between requests no book holds a crossing pair and
\* no two resting orders of one symbol cross.
C3_NoCrossAfterMatch ==
    /\ \A t \in Threads :
          pc[t] = "commit" => NotCrossable(books[req[t].symbol])
    /\ Quiescent => \A symbol \in DOMAIN books : NotCrossable(books[symbol])
    /\ Quiescent =>
          \A b \in Resting("BUY"), a \in Resting("SELL") :
              orders[b].symbol = orders[a].symbol
                 => orders[b].price < orders[a].price

\* match_all has returned on a book that holds a valid bid below a valid ask
C3_Witness ==
    \E t \in Threads :
        /\ pc[t] = "commit"
        /\ trade_ids > 0
        /\ ValidEntries(books[req[t].symbol], "BUY") # {}
        /\ ValidEntries(books[req[t].symbol], "SELL") # {}

\* C9: every stored trade has quantity > 0 and price > 0, a BUY order as buy
\* order and a SELL order as sell order, two different orders, and the symbol
\* of both.
C9_TradeWellFormed ==
    \A id \in DOMAIN trades :
        LET tr == trades[id]
        IN /\ tr.quantity > 0
           /\ tr.price > 0
           /\ tr.buy_order_id \in DOMAIN orders
           /\ tr.sell_order_id \in DOMAIN orders
           /\ orders[tr.buy_order_id].side = "BUY"
           /\ orders[tr.sell_order_id].side = "SELL"
           /\ orders[tr.buy_order_id].symbol = tr.symbol
           /\ orders[tr.sell_order_id].symbol = tr.symbol
           /\ tr.buy_order_id # tr.sell_order_id

\* a trade on one symbol while an order of the other symbol is open
C9_Witness ==
    /\ \E id \in DOMAIN trades : trades[id].symbol = "MSFT"
    /\ \E id \in DOMAIN orders :
          orders[id].symbol = "AAPL" /\ orders[id].status = "NEW"

\* the trades a step inserts in the session of thread t
Inserted(t) == (DOMAIN sess'[t].trades) \ (DOMAIN sess[t].trades)

\* the row of order id as db.get(Order, id) gives it to thread t
Row(t, id) == IF id \in DOMAIN sess[t].cur THEN sess[t].cur[id] ELSE orders[id]

\* C4: every trade match_all produces has the smaller of the two remaining
\* quantities as quantity and the sell order's limit price as price, which
\* is at most the buy order's limit price.
C4_TradeQtyAndPrice ==
    [][\A t \in Threads : \A id \in Inserted(t) :
          LET tr == sess'[t].trades[id]
              entries == books[tr.symbol].entries
          IN /\ tr.quantity = Min2(entries[tr.buy_order_id].remaining,
                                   entries[tr.sell_order_id].remaining)
             /\ tr.price = Row(t, tr.sell_order_id).price
             /\ tr.price <= Row(t, tr.buy_order_id).price]_vars

\* two trades below the bid's price: one whose ask rested, one whose bid rested
C4_Witness ==
    \E a, b \in DOMAIN trades :
        /\ trades[a].sell_order_id < trades[a].buy_order_id
        /\ trades[b].sell_order_id > trades[b].buy_order_id
        /\ trades[a].price < orders[trades[a].buy_order_id].price
        /\ trades[b].price < orders[trades[b].buy_order_id].price

\* C5: price priority. The bid of a trade is a valid bid of the highest price
\* among the valid bids of the book, its ask a valid ask of the lowest price.
C5_PricePriority ==
    [][\A t \in Threads : \A id \in Inserted(t) :
          LET tr == sess'[t].trades[id]
              book == books[tr.symbol]
              bids == ValidEntries(book, "BUY")
              asks == ValidEntries(book, "SELL")
          IN /\ tr.buy_order_id \in bids
             /\ tr.sell_order_id \in asks
             /\ \A b \in bids : book.entries[b].price
                                   <= book.entries[tr.buy_order_id].price
             /\ \A a \in asks : book.entries[a].price
                                   >= book.entries[tr.sell_order_id].price]_vars

\* a trade was made while a valid bid of a lower price rested in the book
C5_Witness ==
    \E t \in Threads : \E id \in DOMAIN sess[t].trades :
        LET tr == sess[t].trades[id]
            book == books[tr.symbol]
        IN \E b \in ValidEntries(book, "BUY") :
              /\ book.entries[b].price < book.entries[tr.buy_order_id].price
              /\ book.entries[b].seq < book.entries[tr.buy_order_id].seq
              /\ book.entries[b].seq < book.entries[tr.sell_order_id].seq

\* C6: time priority. No valid entry of the same side and price as the bid
\* (the ask) of a trade entered the book before it.
C6_TimePriority ==
    [][\A t \in Threads : \A id \in Inserted(t) :
          LET tr == sess'[t].trades[id]
              book == books[tr.symbol]
              bid == book.entries[tr.buy_order_id]
              ask == book.entries[tr.sell_order_id]
          IN /\ \A b \in ValidEntries(book, "BUY") :
                   book.entries[b].price = bid.price
                      => bid.seq <= book.entries[b].seq
             /\ \A a \in ValidEntries(book, "SELL") :
                   book.entries[a].price = ask.price
                      => ask.seq <= book.entries[a].seq]_vars

\* a trade was made with the earlier of two valid asks of one price
C6_Witness ==
    \E t \in Threads : \E id \in DOMAIN sess[t].trades :
        LET tr == sess[t].trades[id]
            book == books[tr.symbol]
        IN \E a \in ValidEntries(book, "SELL") :
              /\ a # tr.sell_order_id
              /\ book.entries[a].price = book.entries[tr.sell_order_id].price
              /\ book.entries[a].seq > book.entries[tr.sell_order_id].seq
              /\ book.entries[a].seq < book.entries[tr.buy_order_id].seq

\* C7: cancel safety. No trade is made with an order for which the engine's
\* cancel has returned True, whatever the status of its row in the store.
C7_CancelSafety ==
    [][\A t \in Threads : \A id \in Inserted(t) :
          /\ sess'[t].trades[id].buy_order_id \notin cancel_true
          /\ sess'[t].trades[id].sell_order_id \notin cancel_true]_vars

\* an order cancelled in the book alone, open in the store, and a later order
\* that crosses it, is not filled and rests
C7_Witness ==
    /\ Quiescent
    /\ \E c \in cancel_true, o \in DOMAIN orders :
          /\ c \in DOMAIN orders
          /\ o > c
          /\ orders[c].status = "PARTIAL"
          /\ orders[o].status = "NEW"
          /\ orders[c].side = "SELL" /\ orders[o].side = "BUY"
          /\ orders[o].price >= orders[c].price

\* the trade rows with id, stored or in a session
Inserts(committed, sessions, id) ==
    {committed[x] : x \in {id} \cap DOMAIN committed}
        \cup {sessions[t].trades[id] :
                 t \in {u \in Threads : id \in DOMAIN sessions[u].trades}}

C8_TerminalAbsorbing ==
    [][\A id \in DOMAIN orders :
          /\ orders[id].status \in {"FILLED", "CANCELLED"}
                => orders'[id].status = orders[id].status
          /\ orders[id].status = "CANCELLED"
                => orders'[id].filled_quantity <= orders[id].filled_quantity]_vars

\* thread t serves a POST /orders that create_order has accepted
Submitting(t) == pc[t] \in {"submit", "match", "commit"}

\* C11: a submission either commits, and then its order is stored, or fails,
\* and then orders and trades are as they were when the request came in and
\* nothing of the request is left to be written: no step of a request before
\* its end writes a table, and a failure inside match_all ends the request
\* with both tables unchanged, the session empty and no row lock held.
C11_CommitOrUnchanged ==
    [][\A t \in Threads :
          /\ (pc[t] = "idle" /\ pc'[t] = "submit")
                => (orders' = orders /\ trades' = trades)
          /\ (Submitting(t) /\ pc'[t] # "idle")
                => (orders' = orders /\ trades' = trades)
          /\ (Submitting(t) /\ pc'[t] = "idle")
                => \/ /\ req[t].id \in DOMAIN orders'
                      /\ DOMAIN sess[t].trades \subseteq DOMAIN trades'
                   \/ /\ orders' = orders
                      /\ trades' = trades
                      /\ sess'[t] = EmptySession
                      /\ \A id \in DOMAIN rowlock' : rowlock'[id] # t
          /\ (pc[t] = "match" /\ pc'[t] = "idle")
                => /\ orders' = orders
                   /\ trades' = trades
                   /\ sess'[t] = EmptySession]_vars

\* a request failed after a trade of its batch had its id, next to a stored
\* order: the order and the trade of the failed request are in no table
C11_Witness ==
    /\ Quiescent
    /\ DOMAIN orders # {}
    /\ \E id \in 1..order_ids : id \notin DOMAIN orders
    /\ \E id \in 1..trade_ids : id \notin DOMAIN trades

\* the stored orders rebuild_from_db has to put back: open and not yet filled
ToRebuild(symbol) ==
    {id \in DOMAIN orders : /\ orders[id].symbol = symbol
                            /\ orders[id].status \in {"NEW", "PARTIAL"}
                            /\ orders[id].quantity > orders[id].filled_quantity}

\* C12: started on an empty engine, rebuild_from_db leaves one book per symbol
\* of an open order; the book holds exactly one entry and one queue item for
\* each stored NEW or PARTIAL order of the symbol with quantity >
\* filled_quantity, with the order's side and price and remaining = quantity -
\* filled_quantity, not cancelled, and sequence numbers 1..n in the order of
\* created_at; nothing for FILLED, CANCELLED or REJECTED orders; no trade is
\* made and no row changes.
C12_RebuildInsertsOpenOrders ==
    [][Restart =>
          /\ orders' = orders /\ trades' = trades /\ trade_ids' = trade_ids
          /\ DOMAIN books' = {symbol \in Symbols : ToRebuild(symbol) # {}}
          /\ \A symbol \in DOMAIN books' :
                LET book == books'[symbol]
                    ids == ToRebuild(symbol)
                IN /\ DOMAIN book.entries = ids
                   /\ book.seq_counter = Cardinality(ids)
                   /\ \A id \in ids :
                         /\ book.entries[id].order_id = id
                         /\ book.entries[id].side = orders[id].side
                         /\ book.entries[id].price = orders[id].price
                         /\ book.entries[id].remaining =
                               orders[id].quantity - orders[id].filled_quantity
                         /\ ~book.entries[id].cancelled
                         /\ book.entries[id].seq \in 1..Cardinality(ids)
                   /\ \A a, b \in ids :
                         orders[a].created_at < orders[b].created_at
                            => book.entries[a].seq < book.entries[b].seq
                   /\ book.bids = {BidKey(book.entries[id]) :
                                     id \in {x \in ids : orders[x].side = "BUY"}}
                   /\ book.asks = {AskKey(book.entries[id]) :
                                     id \in {x \in ids : orders[x].side = "SELL"}}
                   /\ book.lock = NoThread]_vars

\* a rebuilt book: a PARTIAL order and another order rest in it with the
\* sequence numbers 1 and 2, and a FILLED order of the symbol, stored before
\* the second of them, has no entry
C12_Witness ==
    /\ Quiescent
    /\ \E symbol \in DOMAIN books : \E a, b \in DOMAIN books[symbol].entries :
          /\ orders[a].status = "PARTIAL"
          /\ books[symbol].entries[a].remaining = 1
          /\ books[symbol].entries[a].seq = 1
          /\ books[symbol].entries[b].seq = 2
          /\ books[symbol].seq_counter = 2
          /\ \E c \in DOMAIN orders :
                /\ orders[c].symbol = symbol
                /\ orders[c].status = "FILLED"
                /\ c < b
                /\ c \notin DOMAIN books[symbol].entries

\* the queue of a side of the book of symbol, {} where no book exists
Queue(registry, symbol, side) ==
    IF symbol \notin DOMAIN registry THEN {}
    ELSE IF side = "BUY" THEN registry[symbol].bids ELSE registry[symbol].asks

\* the queue items of live entries: present, not cancelled, remaining > 0
LiveItems(registry, symbol, side) ==
    {x \in Queue(registry, symbol, side) :
        ~Invalid(registry[symbol].entries, x[3])}

\* the orders with a live entry on a side
Live(registry, symbol, side) ==
    {x[3] : x \in LiveItems(registry, symbol, side)}

\* the priority among them: <<a, b>> when a would be matched before b
Before(registry, symbol, side) ==
    {<<x[3], y[3]>> : x, y \in LiveItems(registry, symbol, side)}
        \cap {<<x[3], y[3]>> : <<x, y>> \in
                 {z \in LiveItems(registry, symbol, side)
                           \X LiveItems(registry, symbol, side) :
                     TupleLess(z[1], z[2])}}

\* C13: between requests, a new engine rebuilt from the store has, for every
\* symbol and side, the live entries of the running engine's book, in the
\* same priority order.
C13_RecoveryPreservesPriority ==
    Quiescent =>
        \A r \in RebuildFromDb(EmptyMap, orders) :
            \A symbol \in Symbols, side \in Sides :
                /\ Live(r, symbol, side) = Live(books, symbol, side)
                /\ Before(r, symbol, side) = Before(books, symbol, side)

\* C14: recovery is idempotent. A second run of rebuild_from_db on the engine
\* the first run left, the store unchanged, leaves every book as it was:
\* queues, entries and sequence counter.
C14_RebuildIdempotent ==
    [][RebuildAgain => books' = books]_vars

\* C15: submit_and_match is atomic on its book. While a thread holds the lock
\* of a book it is between its add and the return of its match_all on that
\* book, and no step of another thread (a submit's add, a cancel) changes the
\* book; so the submits and cancels of a symbol act on the book one whole
\* operation after the other.
C15_SubmitAtomic ==
    [][\A symbol \in DOMAIN books : \A t \in Threads :
          books[symbol].lock = t =>
              /\ pc[t] \in {"match", "flush"}
              /\ req[t].symbol = symbol
              /\ \A u \in Threads \ {t} :
                    (pc'[u] # pc[u] \/ sess'[u] # sess[u] \/ req'[u] # req[u])
                       => books'[symbol] = books[symbol]]_vars

\* a thread has made a trade and is still inside match_all while another
\* thread waits for the book's lock with a submit or a cancel
C15_Witness ==
    \E t \in Threads, u \in Threads :
        /\ t # u
        /\ "AAPL" \in DOMAIN books
        /\ books["AAPL"].lock = t
        /\ DOMAIN sess[t].trades # {}
        /\ pc[u] \in {"submit", "cancel_engine"}

\* C16: operations on different symbols do not block each other. The global
\* lock is held only inside _book, by a thread that holds no book lock, and a
\* request for MSFT always completes, wherever the thread serving AAPL stops
\* inside match_all or at a store call.
C16_SymbolsIndependent ==
    /\ [](\A t \in Threads :
            pc[t] = "lookup" =>
                \A symbol \in DOMAIN books : books[symbol].lock # t)
    /\ (pc[2] # "idle") ~> (pc[2] = "idle")

\* thread 1 is inside match_all on AAPL after a trade, holding that book's
\* lock, and an order for MSFT that came in after thread 1's is stored
C16_Witness ==
    /\ pc[1] = "match"
    /\ "AAPL" \in DOMAIN books
    /\ books["AAPL"].lock = 1
    /\ DOMAIN sess[1].trades # {}
    /\ pc[2] = "idle"
    /\ \E id \in DOMAIN orders :
          /\ id > req[1].id
          /\ orders[id].symbol = "MSFT"
          /\ id \in DOMAIN books["MSFT"].entries

\* C17: determinism. The engine a start leaves is the only one that can be
\* started from that store as far as matching goes: every engine rebuilt from
\* the store has the same live entries in the same priority order, so that
\* the same calls give the same trades on each.
C17_Deterministic ==
    [][Restart =>
          \A r \in RebuildFromDb(EmptyMap, orders) :
              \A symbol \in Symbols, side \in Sides :
                  /\ Live(r, symbol, side) = Live(books', symbol, side)
                  /\ Before(r, symbol, side) = Before(books', symbol, side)]_vars

\* what a call of cancel(order_id) on the book of symbol has done in a step
CancelEffect(symbol, order_id) ==
    LET book == books[symbol]
        after == books'[symbol]
    IN /\ symbol \in DOMAIN books'
       /\ after.bids = book.bids
       /\ after.asks = book.asks
       /\ after.seq_counter = book.seq_counter
       /\ after.lock = book.lock
       /\ DOMAIN after.entries = DOMAIN book.entries
       /\ \A o \in DOMAIN book.entries \ {order_id} :
              after.entries[o] = book.entries[o]
       /\ IF order_id \in DOMAIN book.entries
          THEN /\ order_id \in cancel_true'
               /\ after.entries[order_id] =
                      [book.entries[order_id] EXCEPT !.cancelled = TRUE]
          ELSE cancel_true' = cancel_true

\* C18: OrderBook.cancel returns True exactly when the book's index holds an
\* entry for the order id, and False for an id the book does not know. When
\* it returns True it has set that entry's cancelled flag and nothing else:
\* both queues (the cancelled order's item included), every other entry, the
\* other fields of the entry and the sequence counter are as before.
C18_CancelIsTombstone ==
    [][/\ \A t \in Threads :
             (CancelEngine(t) /\ req[t].symbol \in DOMAIN books)
                 => CancelEffect(req[t].symbol, req[t].id)
       /\ \A symbol \in DOMAIN books, order_id \in 1..MaxOrders :
             (Quiescent /\ DirectCancel(symbol, order_id))
                 => CancelEffect(symbol, order_id)]_vars

\* cancel has returned True for an order with quantity left, its entry is
\* flagged, its item is still in its queue behind no other, and another
\* order's entry in the same book is not flagged
C18_Witness ==
    /\ Quiescent
    /\ \E symbol \in DOMAIN books :
          \E c \in cancel_true \cap DOMAIN books[symbol].entries,
             o \in DOMAIN books[symbol].entries :
              LET book == books[symbol]
              IN /\ o # c
                 /\ book.entries[c].cancelled
                 /\ book.entries[c].remaining > 0
                 /\ book.entries[c].side = "BUY"
                 /\ BidKey(book.entries[c]) \in book.bids
                 /\ ~book.entries[o].cancelled
                 /\ book.entries[o].remaining > 0

\* what a call of the engine's cancel(symbol, order_id) leaves alone
EngineCancelFrame(symbol, order_id) ==
    /\ orders' = orders
    /\ trades' = trades
    /\ order_ids' = order_ids
    /\ trade_ids' = trade_ids
    /\ DOMAIN books' = DOMAIN books
    /\ \A other \in DOMAIN books \ {symbol} : books'[other] = books[other]
    /\ symbol \notin DOMAIN books => cancel_true' = cancel_true

\* C19: MatchingEngine.cancel creates no book: the registry has the same
\* symbols after the call, and for a symbol without a book the call returns
\* False. Whatever it returns, the order and trade rows of the store, the id
\* counters and the books of all other symbols are as before the call.
C19_EngineCancelFrame ==
    [][/\ \A t \in Threads :
             CancelEngine(t) => EngineCancelFrame(req[t].symbol, req[t].id)
       /\ \A symbol \in Symbols, order_id \in 1..MaxOrders :
             (Quiescent /\ DirectCancel(symbol, order_id))
                 => EngineCancelFrame(symbol, order_id)]_vars

\* the engine's cancel has returned True for an order whose row is still
\* NEW in the store, and the book of another symbol holds an order's entry,
\* unflagged, with its item in the queue
C19_Witness ==
    /\ Quiescent
    /\ \E c \in cancel_true \cap DOMAIN orders :
          \E other \in DOMAIN books \ {orders[c].symbol} :
             \E o \in DOMAIN books[other].entries :
                 /\ orders[c].status = "NEW"
                 /\ orders[c].symbol \in DOMAIN books
                 /\ c \in DOMAIN books[orders[c].symbol].entries
                 /\ books[orders[c].symbol].entries[c].cancelled
                 /\ ~books[other].entries[o].cancelled
                 /\ books[other].entries[o].remaining > 0
                 /\ books[other].entries[o].side = "SELL"
                 /\ AskKey(books[other].entries[o]) \in books[other].asks

\* the preconditions the specification gives for add
AddPreconditions(order) ==
    /\ order.price # NoPrice
    /\ order.price > 0
    /\ order.quantity > order.filled_quantity
    /\ order.filled_quantity >= 0

\* C20: whenever add is called with an order whose price is missing or not
\* above 0, or whose quantity is not above its filled_quantity, or whose
\* filled_quantity is negative, add raises and the book is as before.
C20_AddRejectsInvalid ==
    [][\A id \in 1..MaxOrders, order \in OrderObjects :
          (DirectAdd("AAPL", id, order) /\ ~AddPreconditions(order))
              => (AddRaises(order) /\ books' = books)]_vars

\* the queue items and entries of book `after` that book `before` has not
Pushed(before, after) == (after.bids \cup after.asks) \ (before.bids \cup before.asks)

Created(before, after) ==
    {id \in DOMAIN after.entries :
        id \notin DOMAIN before.entries
            \/ after.entries[id].seq # before.entries[id].seq}

\* C21: sequence numbers. As long as a book lives (until the process is
\* started again), its counter never goes down, every entry and queue item
\* that a step creates carries a number above the counter before the step
\* and at most the counter after it, two items created by one step carry
\* different numbers, and no two entries of a book share a number. So a later
\* entry has a larger number than every earlier one and none is used twice.
C21_SeqIncreasing ==
    [][\/ Restart
       \/ \A symbol \in DOMAIN books :
             /\ symbol \in DOMAIN books'
             /\ LET before == books[symbol]
                    after == books'[symbol]
                IN /\ after.seq_counter >= before.seq_counter
                   /\ \A x \in Pushed(before, after) :
                         /\ x[2] > before.seq_counter
                         /\ x[2] <= after.seq_counter
                   /\ \A x, y \in Pushed(before, after) : x[2] = y[2] => x = y
                   /\ \A id \in Created(before, after) :
                         /\ after.entries[id].seq > before.seq_counter
                         /\ after.entries[id].seq <= after.seq_counter
                   /\ \A a, b \in DOMAIN after.entries :
                         after.entries[a].seq = after.entries[b].seq => a = b]_vars

\* a book that has taken three orders in three requests: their entries carry
\* 1, 2, 3 in the order of their ids and the counter stands at 3
C21_Witness ==
    \E symbol \in DOMAIN books :
        /\ books[symbol].seq_counter = 3
        /\ DOMAIN books[symbol].entries = {1, 2, 3}
        /\ \A id \in 1..3 : books[symbol].entries[id].seq = id

\* C22: a nonce is single-use. Of all the consume_nonce calls for a nonce
\* that put_nonce stored once, at most one returns True, also when two of
\* them run at the same time.
C22_NonceSingleUse == \A nonce \in DOMAIN nonce_true : nonce_true[nonce] <= 1

\* C23: the cancel boundary. A cancel request goes past its checks only for
\* an order that exists, belongs to the requesting user and is not FILLED,
\* CANCELLED or REJECTED. A rejected request changes nothing: a row's status
\* becomes CANCELLED only in the commit of a request that passed the checks,
\* for that request's order, and the engine's cancel is called only by such
\* a request, after the commit that wrote CANCELLED to the store.
C23_CancelBoundary ==
    [][/\ \A t \in Threads :
             (pc[t] = "idle" /\ pc'[t] = "cancel_commit")
                 => /\ req'[t].id \in DOMAIN orders
                    /\ orders[req'[t].id].user_id = req'[t].user_id
                    /\ orders[req'[t].id].status \notin
                          {"FILLED", "CANCELLED", "REJECTED"}
                    /\ orders' = orders
                    /\ books' = books
       /\ \A id \in DOMAIN orders' :
             (/\ id \in DOMAIN orders
              /\ orders'[id].status = "CANCELLED"
              /\ orders[id].status # "CANCELLED")
                 => \E t \in Threads :
                       /\ pc[t] = "cancel_commit"
                       /\ pc'[t] = "cancel_engine"
                       /\ req[t].id = id
                       /\ books' = books
       /\ \A t \in Threads :
             (pc'[t] = "cancel_engine" /\ pc[t] # "cancel_engine")
                 => /\ pc[t] = "cancel_commit"
                    /\ orders'[req[t].id].status = "CANCELLED"
                    /\ books' = books
                    /\ cancel_true' = cancel_true
       /\ cancel_true' # cancel_true
             => \E t \in Threads :
                   /\ pc[t] = "cancel_engine"
                   /\ cancel_true' = cancel_true \cup {req[t].id}]_vars

\* a cancel of user 2's order has committed CANCELLED and has not reached
\* the engine yet: the order's entry is in the book unflagged; an order of
\* user 1 is FILLED, so a cancel of it was or will be refused
C23_Witness ==
    /\ pc[1] = "cancel_engine"
    /\ req[1].id \in DOMAIN orders
    /\ orders[req[1].id].status = "CANCELLED"
    /\ orders[req[1].id].user_id = 2
    /\ req[1].user_id = 2
    /\ req[1].symbol \in DOMAIN books
    /\ req[1].id \in DOMAIN books[req[1].symbol].entries
    /\ ~books[req[1].symbol].entries[req[1].id].cancelled
    /\ req[1].id \notin cancel_true
    /\ \E o \in DOMAIN orders : orders[o].status = "FILLED" /\ orders[o].user_id = 1

\* C24: the submission boundary. A request is taken on (an order id is
\* handed out, a row is written) only with type LIMIT, a price above 0 and a
\* quantity above 0; a rejected request leaves store, session and engine
\* as they were. The row of an accepted order is in the request's session
\* with an upper-case symbol, filled_quantity 0 and status NEW, and the
\* engine has not been touched, when submit_and_match is entered.
C24_SubmitBoundary ==
    [][/\ \A t \in Threads :
             (pc[t] = "idle" /\ pc'[t] = "submit")
                 => LET id == req'[t].id
                    IN /\ order_ids' = order_ids + 1
                       /\ id = order_ids'
                       /\ id \in DOMAIN sess'[t].cur
                       /\ sess'[t].cur[id].type = "LIMIT"
                       /\ sess'[t].cur[id].price # NoPrice
                       /\ sess'[t].cur[id].price > 0
                       /\ sess'[t].cur[id].quantity > 0
                       /\ sess'[t].cur[id].symbol \in Symbols
                       /\ sess'[t].cur[id].filled_quantity = 0
                       /\ sess'[t].cur[id].status = "NEW"
                       /\ books' = books
       /\ order_ids' # order_ids
             => \E t \in Threads : pc[t] = "idle" /\ pc'[t] = "submit"
       /\ (\A t \in Threads : pc[t] = "idle" /\ pc'[t] = "idle")
             => /\ orders' = orders
                /\ trades' = trades
                /\ order_ids' = order_ids
                /\ sess' = sess
                /\ books' = books
       /\ \A t \in Threads :
             (/\ pc'[t] \in {"match", "lookup"}
              /\ pc[t] \notin {"match", "flush", "lookup", "lock"})
                 => /\ pc[t] = "submit"
                    /\ req[t].id \in DOMAIN sess[t].cur]_vars

\* create_order has flushed the first order of a request for MSFT and
\* submit_and_match has not begun: the row is in the session only, no book
\* exists yet
C24_Witness ==
    /\ pc[1] = "submit"
    /\ order_ids = 1
    /\ req[1].id = 1
    /\ 1 \in DOMAIN sess[1].cur
    /\ 1 \notin DOMAIN orders
    /\ sess[1].cur[1].symbol = "MSFT"
    /\ sess[1].cur[1].status = "NEW"
    /\ sess[1].cur[1].filled_quantity = 0
    /\ books = EmptyMap

\* C25: a token is issued only for a login request whose message parsed,
\* for whose nonce consume_nonce returned True (as often at least as tokens
\* were issued on it), whose domain is the configured domain, whose URI
\* starts with the configured origin and whose signature recovers the
\* address in the message. A rejected login creates no user: every user row
\* belongs to an address a token was issued for.
C25_TokenOnlyIfVerified ==
    /\ \A k \in tokens :
          /\ k.parses
          /\ k.nonce \in DOMAIN nonce_true
          /\ nonce_true[k.nonce] >= 1
          /\ k.domain = "localhost"
          /\ Len(k.uri) >= 2
          /\ k.uri[1] = "http://" /\ k.uri[2] = "localhost:8000"
          /\ k.recovered = k.address
    /\ \A address \in users : \E k \in tokens : k.address = address

\* a login for 0xA with a URI below the origin got its token and its user
\* row; the other nonce was used up by a login that was rejected after
\* consume_nonce, and no user 0xB exists
C25_Witness ==
    /\ \A t \in Threads : pc[t] = "idle"
    /\ users = {"0xA"}
    /\ \E k \in tokens : k.address = "0xA" /\ Len(k.uri) = 3
    /\ \E n \in DOMAIN nonce_true :
          /\ nonce_true[n] = 1
          /\ \A k \in tokens : k.nonce # n

\* C26: mark_all_as_read(user) returns the number of the user's notifications
\* that were unread before the call; after the call the user has no unread
\* notification (get_unread_count is 0); the table has the same ids and the
\* rows of every other user are as before.
C26_MarkAllAsRead ==
    [][\A user_id \in NotificationUsers :
          mark_all_as_read(user_id)
              => /\ MarkAllAsReadCount(notifications, user_id) =
                       Cardinality({id \in DOMAIN notifications :
                                       /\ notifications[id].user_id = user_id
                                       /\ ~notifications[id].is_read})
                 /\ get_unread_count(notifications', user_id) = 0
                 /\ \A id \in DOMAIN notifications' :
                       notifications'[id].user_id = user_id
                           => notifications'[id].is_read
                 /\ DOMAIN notifications' = DOMAIN notifications
                 /\ \A id \in DOMAIN notifications :
                       notifications[id].user_id # user_id
                           => notifications'[id] = notifications[id]]_vars

\* user 1 has three notifications, two of them marked in one call (both
\* carry the call's time) and one read before; user 2 has none
C26_Witness ==
    /\ DOMAIN notifications = 1..3
    /\ \A id \in 1..3 : notifications[id].user_id = 1 /\ notifications[id].is_read
    /\ notifications[1].read_at = Now
    /\ notifications[2].read_at = Earlier
    /\ notifications[3].read_at = Now

\* C27: notification ownership. mark_as_read(id, user) and
\* delete_notification(id, user) find a notification only when it exists
\* and belongs to the user: then they change (or remove) that row alone.
\* For an id that does not exist or belongs to another user they
\* return None / False and every notification is as before.
C27_NotificationOwnership ==
    [][\A notification_id \in 1..(MaxNotifications + 1),
          user_id \in NotificationUsers :
          LET exists == notification_id \in DOMAIN notifications
              own == exists /\ notifications[notification_id].user_id = user_id
          IN /\ mark_as_read(notification_id, user_id)
                  => /\ MarkAsReadFound(notifications, notification_id, user_id)
                           = own
                     /\ ~own => notifications' = notifications
                     /\ DOMAIN notifications' = DOMAIN notifications
                     /\ \A id \in DOMAIN notifications \ {notification_id} :
                           notifications'[id] = notifications[id]
                     /\ own => /\ notifications'[notification_id].is_read
                               /\ notifications'[notification_id].user_id = user_id
             /\ delete_notification(notification_id, user_id)
                  => /\ DeleteResult(notifications, notification_id, user_id)
                           = own
                     /\ ~own => notifications' = notifications
                     /\ own => DOMAIN notifications' =
                                  DOMAIN notifications \ {notification_id}
                     /\ \A id \in DOMAIN notifications' :
                           /\ id \in DOMAIN notifications
                           /\ notifications'[id] = notifications[id]]_vars

\* user 1 has marked notification 1 (it carries the call's time);
\* notification 2, of user 2, is unread as before and nothing else is left
C27_Witness ==
    /\ DOMAIN notifications = {1, 2}
    /\ notifications[1].user_id = 1
    /\ notifications[1].is_read
    /\ notifications[1].read_at = Now
    /\ notifications[2].user_id = 2
    /\ ~notifications[2].is_read
    /\ notifications[2].read_at = NoTime

\* C28: a missing row. When an iteration of match_all has found a crossing
\* pair and the store has no row for one of the two orders, the entry of
\* that order is invalidated (remaining 0), no trade is made, the entry of
\* the other order keeps its remaining, and the loop goes on.
C28_MissingInvalidatesOne ==
    [][\A t \in Threads :
          (/\ pc[t] = "match"
           /\ MatchStep(t)
           /\ PairFound(books[req[t].symbol])
           /\ LET book == books[req[t].symbol]
              IN \/ ~Visible(t, TopValid(book.bids, book.entries))
                 \/ ~Visible(t, TopValid(book.asks, book.entries)))
              => LET book == books[req[t].symbol]
                     after == books'[req[t].symbol]
                     pair == {TopValid(book.bids, book.entries),
                              TopValid(book.asks, book.entries)}
                 IN /\ sess'[t].trades = sess[t].trades
                    /\ trade_ids' = trade_ids
                    /\ pc'[t] = "match"
                    /\ \A oid \in pair :
                          after.entries[oid].remaining =
                             IF Visible(t, oid)
                             THEN book.entries[oid].remaining ELSE 0]_vars

\* the pair match_all has found in the book of thread t's symbol, and the
\* one of the two that the loop finds CANCELLED (the buy order is tested
\* first), NoOrder when neither is
FoundPair(t) ==
    LET book == books[req[t].symbol]
    IN <<TopValid(book.bids, book.entries), TopValid(book.asks, book.entries)>>

SeenCancelled(t) ==
    LET pair == FoundPair(t)
    IN IF ~(Visible(t, pair[1]) /\ Visible(t, pair[2])) THEN NoOrder
       ELSE IF Row(t, pair[1]).status = "CANCELLED" THEN pair[1]
       ELSE IF Row(t, pair[2]).status = "CANCELLED" THEN pair[2]
       ELSE NoOrder

\* C29: a cancelled row. When an iteration of match_all has found a
\* crossing pair and the row of one of the two orders is CANCELLED, the
\* entry of that order is flagged and nothing else of it changes, no trade
\* is made, the other entry and both queues below the top are as before, and
\* the loop goes on. A flagged entry stays flagged, and no trade is ever
\* made with an order whose entry is flagged.
C29_CancelledRowTombstones ==
    [][/\ \A t \in Threads :
             (/\ pc[t] = "match"
              /\ MatchStep(t)
              /\ PairFound(books[req[t].symbol])
              /\ SeenCancelled(t) # NoOrder)
                 => LET book == books[req[t].symbol]
                        after == books'[req[t].symbol]
                        c == SeenCancelled(t)
                    IN /\ sess'[t].trades = sess[t].trades
                       /\ trade_ids' = trade_ids
                       /\ pc'[t] = "match"
                       /\ after.entries =
                             [book.entries EXCEPT ![c].cancelled = TRUE]
                       /\ after.bids = PruneTop(book.bids, book.entries)
                       /\ after.asks = PruneTop(book.asks, book.entries)
                       /\ \A o \in {FoundPair(t)[1], FoundPair(t)[2]} \ {c} :
                             TopValid(after.bids, after.entries) = o
                                \/ TopValid(after.asks, after.entries) = o
       /\ \A symbol \in DOMAIN books :
             \A o \in DOMAIN books[symbol].entries :
                books[symbol].entries[o].cancelled
                    => /\ symbol \in DOMAIN books'
                       /\ o \in DOMAIN books'[symbol].entries
                       /\ books'[symbol].entries[o].cancelled
       /\ \A t \in Threads : \A id \in Inserted(t) :
             LET tr == sess'[t].trades[id]
             IN /\ ~books[tr.symbol].entries[tr.buy_order_id].cancelled
                /\ ~books[tr.symbol].entries[tr.sell_order_id].cancelled]_vars

\* a cancel of SELL order 1 has committed and has not reached the engine;
\* the request of BUY order 3 found the row CANCELLED, flagged the entry of
\* order 1 and went on to trade with SELL order 2, the next best
C29_Witness ==
    /\ pc[1] = "cancel_engine"
    /\ req[1].id = 1
    /\ orders[1].status = "CANCELLED"
    /\ 1 \notin cancel_true
    /\ "AAPL" \in DOMAIN books
    /\ 1 \in DOMAIN books["AAPL"].entries
    /\ books["AAPL"].entries[1].cancelled
    /\ books["AAPL"].entries[1].remaining > 0
    /\ \E id \in DOMAIN sess[2].trades :
          /\ sess[2].trades[id].buy_order_id = 3
          /\ sess[2].trades[id].sell_order_id = 2

\* the total remaining quantity of the valid entries of a book
RECURSIVE RemainingSum(_, _)
RemainingSum(book, ids) ==
    IF ids = {} THEN 0
    ELSE LET id == CHOOSE x \in ids : TRUE
         IN book.entries[id].remaining + RemainingSum(book, ids \ {id})

TotalRemaining(book) ==
    RemainingSum(book, ValidEntries(book, "BUY") \cup ValidEntries(book, "SELL"))

\* C30: match_all terminates. Every iteration of the loop either returns or
\* lowers the total remaining quantity of the book's valid entries (by a
\* trade, or by invalidating an entry), which nothing else can raise while
\* the loop holds the book's lock; when it returns, one side has no valid
\* entry or the best bid is below the best ask; and a call that has begun
\* does return when the store calls return.
C30_MatchAllTerminates ==
    /\ [][\A t \in Threads :
             (pc[t] = "match" /\ MatchStep(t))
                 => LET book == books[req[t].symbol]
                        after == books'[req[t].symbol]
                    IN \/ /\ pc'[t] = "commit"
                          /\ NotCrossable(after)
                          /\ after.lock = NoThread
                       \/ /\ pc'[t] \in {"match", "flush"}
                          /\ TotalRemaining(after) < TotalRemaining(book)
                          /\ after.lock = t]_vars
    /\ [][\A t \in Threads :
             (pc[t] \in {"match", "flush"} /\ ~MatchStep(t))
                 => books'[req[t].symbol] = books[req[t].symbol]]_vars
    /\ \A t \in Threads : (pc[t] = "match") ~> (pc[t] = "commit")

\* a call of match_all that has made two trades and returned
C30_Witness ==
    \E t \in Threads :
        /\ pc[t] = "commit"
        /\ Cardinality(DOMAIN sess[t].trades) = 2
        /\ NotCrossable(books[req[t].symbol])

\* the order ids that still have an item in one of the two queues
Queued(book) == {x[3] : x \in book.bids \cup book.asks}

\* C31: an entry is destroyed once it stops being live. Whenever no
\* operation holds the book's lock, every order id in the book's index
\* entries has remaining > 0 and still has its item in a queue: an entry
\* whose remaining reached 0, or whose item was popped from the top of its
\* queue, is no longer in the index.
C31_IndexHoldsLiveOnly ==
    \A symbol \in DOMAIN books :
        books[symbol].lock = NoThread
            => \A id \in DOMAIN books[symbol].entries :
                  /\ books[symbol].entries[id].remaining > 0
                  /\ id \in Queued(books[symbol])

\* the order ids with a live entry in the book of symbol
LiveEntries(symbol) ==
    IF symbol \notin DOMAIN books THEN {}
    ELSE {id \in DOMAIN books[symbol].entries :
            /\ ~books[symbol].entries[id].cancelled
            /\ books[symbol].entries[id].remaining > 0}

\* the stored orders of symbol that are open
StoredOpen(symbol) ==
    {id \in DOMAIN orders :
        orders[id].symbol = symbol /\ orders[id].status \in {"NEW", "PARTIAL"}}

\* C32: book/store agreement. When no request is in flight, the live entries
\* of every symbol's book are exactly the stored orders of that symbol with
\* status NEW or PARTIAL, and each live entry's remaining is its order's
\* quantity - filled_quantity.
C32_BookAgreesWithStore ==
    Quiescent
        => \A symbol \in Symbols :
              /\ LiveEntries(symbol) = StoredOpen(symbol)
              /\ \A id \in LiveEntries(symbol) :
                    books[symbol].entries[id].remaining =
                        orders[id].quantity - orders[id].filled_quantity

\* C33: every access to the registry books, reads as well as writes, is made
\* while holding the engine's global lock. A step that looks a book up in
\* the registry, in submit_and_match (_book) or in cancel, is therefore
\* never taken while another thread holds the global lock.
C33_RegistryUnderGlobalLock ==
    [][\A t \in Threads :
          (BookLookup(t) \/ CancelEngine(t)) => GlobalLockFree(t)]_vars

\* C34: a book is created lazily and exactly once per symbol. Whatever the
\* interleaving of the submissions, a step registers a book only for the
\* symbol of the order that the stepping thread submits and only when that
\* symbol has none; a registered book is never removed or replaced by a new
\* one: it stays registered, its index keeps every entry it has and its
\* sequence counter never goes back.
C34_BookCreatedOnce ==
    [][/\ \A symbol \in DOMAIN books :
             /\ symbol \in DOMAIN books'
             /\ DOMAIN books[symbol].entries \subseteq DOMAIN books'[symbol].entries
             /\ books[symbol].seq_counter <= books'[symbol].seq_counter
       /\ \A symbol \in (DOMAIN books') \ (DOMAIN books) :
             /\ books'[symbol] = NewOrderBook
             /\ \E t \in Threads :
                   /\ BookMake(t)
                   /\ sess[t].cur[req[t].id].symbol = symbol]_vars

\* two submissions of the first orders of one symbol were inside
\* submit_and_match together, and both entries are in the one book
C34_Witness ==
    /\ \A t \in Threads : pc[t] \in {"match", "commit"}
    /\ \E symbol \in DOMAIN books :
          /\ \A t \in Threads : req[t].symbol = symbol
          /\ {req[t].id : t \in Threads} \subseteq DOMAIN books[symbol].entries
          /\ Cardinality({req[t].id : t \in Threads}) = 2
          /\ orders = EmptyMap

\* C35: when several open orders share the same creation timestamp,
\* rebuild_from_db inserts them in ascending order id: after a restart, of
\* two entries of one book whose orders have the same created_at the one
\* with the smaller order id has the smaller sequence number.
C35_TiesByOrderId ==
    [][Restart
          => \A symbol \in DOMAIN books' :
                \A i, j \in DOMAIN books'[symbol].entries :
                    (i < j /\ orders[i].created_at = orders[j].created_at)
                        => books'[symbol].entries[i].seq
                               < books'[symbol].entries[j].seq]_vars

\* the step is a call of add made directly on the book of AAPL; add_call
\* has the order handed over and whether add raised
AddCalled ==
    /\ Len(add_call') = 1
    /\ DirectAdd("AAPL", add_call'[1].id, add_call'[1].order)

\* the order of the call has nothing left to fill
NothingLeft == add_call'[1].order.quantity - add_call'[1].order.filled_quantity <= 0

\* add returned without raising and left queues, index and counter alone
AddIsNoOp == ~add_call'[1].raised /\ books' = books

\* C36 as stated: add of any order with quantity - filled_quantity <= 0 is a
\* no-op: it raises nothing, inserts nothing into either queue or the index,
\* and does not advance the sequence counter.
C36_AddNoOpAnyOrder ==
    [][(AddCalled /\ NothingLeft) => AddIsNoOp]_vars

\* C36, amended: add of an order that has a price and whose
\* quantity - filled_quantity is <= 0 is a no-op: it raises nothing, inserts
\* nothing into either queue or the index, and does not advance the
\* sequence counter. (Without a price, add raises before it looks at the
\* quantities.)
C36_AddNoOpWhenFilled ==
    [][(AddCalled /\ NothingLeft /\ add_call'[1].order.price # NoPrice)
          => AddIsNoOp]_vars

\* add has just returned from an order with a price and nothing left to
\* fill, on a book that holds an entry from an earlier add
C36_Witness ==
    /\ Len(add_call) = 1
    /\ add_call[1].order.price # NoPrice
    /\ add_call[1].order.quantity - add_call[1].order.filled_quantity <= 0
    /\ ~add_call[1].raised
    /\ DOMAIN books["AAPL"].entries # {}
    /\ add_call[1].id \notin DOMAIN books["AAPL"].entries

\* C37: a failed, rolled-back submission does not damage other orders'
\* resting entries. Where store calls may raise and post_order rolls back,
\* whenever no request is in flight every order that is NEW or PARTIAL in
\* the store is live in its book with remaining = quantity - filled_quantity,
\* and every trade refers to orders that the store has.
C37_FailureSparesOthers ==
    Quiescent
        => /\ \A id \in DOMAIN orders :
                 orders[id].status \in {"NEW", "PARTIAL"}
                    => /\ id \in LiveEntries(orders[id].symbol)
                       /\ books[orders[id].symbol].entries[id].remaining =
                              orders[id].quantity - orders[id].filled_quantity
           /\ \A tr \in DOMAIN trades :
                 {trades[tr].buy_order_id, trades[tr].sell_order_id}
                     \subseteq DOMAIN orders

\* the threads that are inside the with-block of submit_and_match
InBlock == {t \in Threads : pc[t] \in {"match", "flush"}}

\* C38: a book's lock is always released when an operation ends, also when
\* it ends by an exception. A book's lock is held only by a thread that is
\* inside submit_and_match, and a request that has reached the engine,
\* after a failed submission or not, gets the lock and comes to its end.
C38_LockAlwaysReleased ==
    /\ [](\A symbol \in DOMAIN books :
             books[symbol].lock # NoThread => books[symbol].lock \in InBlock)
    /\ \A t \in Threads :
          (pc[t] \in {"submit", "cancel_engine"}) ~> (pc[t] = "idle")

\* the submission of x failed inside match_all after lines 180-181 (its
\* row is not in the store, its entry and that of its counterparty c have
\* remaining 0 and its item was not popped); afterwards the cancel of c and
\* the submission of y on the same symbol went through the engine
C38_Witness ==
    /\ Quiescent
    /\ trades = EmptyMap
    /\ \E symbol \in DOMAIN books :
          \E x, c, y \in DOMAIN books[symbol].entries :
              /\ x \notin DOMAIN orders
              /\ books[symbol].entries[x].remaining = 0
              /\ x \in Queued(books[symbol])
              /\ c \in DOMAIN orders /\ c \in cancel_true
              /\ orders[c].status = "CANCELLED"
              /\ orders[c].filled_quantity = 0
              /\ books[symbol].entries[c].remaining = 0
              /\ y \in DOMAIN orders /\ x < y
              /\ books[symbol].entries[y].remaining > 0

\* the queue items of book that carry order id
ItemsOf(book, id) == {x \in book.bids \cup book.asks : x[3] = id}

\* every queue item whose order id is in the index agrees with its entry,
\* and no order id has two items
QueuesMatchIndex(book) ==
    /\ \A x \in book.bids :
          x[3] \in DOMAIN book.entries
              => /\ book.entries[x[3]].side = "BUY"
                 /\ 0 - x[1] = book.entries[x[3]].price
                 /\ x[2] = book.entries[x[3]].seq
    /\ \A x \in book.asks :
          x[3] \in DOMAIN book.entries
              => /\ book.entries[x[3]].side # "BUY"
                 /\ x[1] = book.entries[x[3]].price
                 /\ x[2] = book.entries[x[3]].seq
    /\ \A id \in Queued(book) : Cardinality(ItemsOf(book, id)) = 1
    /\ {x[3] : x \in book.bids} \cap {x[3] : x \in book.asks} = {}

\* the step is an iteration of match_all by thread t that makes trade id
Traded(t, id) ==
    /\ MatchStep(t)
    /\ trade_ids' = id
    /\ id \in DOMAIN sess'[t].trades

\* C39: queue/index consistency. In every reachable state every item of
\* the bids queue whose order id is in the index names an entry of side BUY
\* with the item's price and sequence number, every such item of the asks
\* queue names an entry of another side with the item's price and sequence
\* number, and no order id has more than one item; and the items that an
\* iteration of match_all takes off the queues after a fill (lines 185-188)
\* are those of the two orders it has just traded, each taken off exactly
\* when its entry has nothing remaining.
C39_QueueIndexConsistent ==
    /\ [](\A symbol \in DOMAIN books : QueuesMatchIndex(books[symbol]))
    /\ [][\A t \in Threads :
             Traded(t, trade_ids + 1)
                 => LET book == Pruned(books[req[t].symbol])
                        after == books'[req[t].symbol]
                        trade == sess'[t].trades[trade_ids + 1]
                        ids == {trade.buy_order_id, trade.sell_order_id}
                    IN /\ after.bids \subseteq book.bids
                       /\ after.asks \subseteq book.asks
                       /\ \A id \in Queued(book) \ Queued(after) : id \in ids
                       /\ \A id \in ids :
                             id \in Queued(after)
                                 <=> after.entries[id].remaining > 0]_vars

\* an iteration of match_all has traded on a book whose queues held other
\* items behind the two it traded, took the filled bid off and left the
\* partly filled ask
C39_Witness ==
    \E t \in Threads :
        /\ pc[t] = "match"
        /\ \E id \in DOMAIN sess[t].trades :
              LET trade == sess[t].trades[id]
                  book == books[req[t].symbol]
              IN /\ trade.buy_order_id \notin Queued(book)
                 /\ trade.sell_order_id \in Queued(book)
                 /\ book.entries[trade.sell_order_id].remaining > 0
                 /\ book.bids # {}

====
